---- MODULE Spec2Model ----
(***************************************************************************)
(* Batch pipeline of taeyouth/event_driven_trading: event normalizer,      *)
(* scoring, entity linker, relevance ranker, market aggregator, volume     *)
(* ranker and signal fusion, each a run() that reads snapshot files and    *)
(* rewrites its own.                                                        *)
(*                                                                         *)
(* Numbers are exact rationals <<n, d>> (d > 0, lowest terms); a missing   *)
(* value of a joined frame (pandas NaN) is the empty tuple <<>>.           *)
(* Strings of the feed are sequences of one-character strings, so that     *)
(* substring tests, counts and concatenations are computed, not assumed.   *)
(***************************************************************************)
EXTENDS Integers, Sequences, FiniteSets, TLC

\* ------------------------------------------------------------------------
\* Bounds of the model
\* ------------------------------------------------------------------------
MaxFeeds == 1         \* raw feed files that arrive
MaxDrops == 1         \* times the raw market directory is refilled
MaxEdits == 1         \* times the configuration files are edited
MaxTicks == 1
MaxWeight == 50       \* magnitude of the adversarial weights and trusts
MaxRank == 3          \* largest relevance rank handed to the score formula
MaxLinks == 3          \* rows of a mapping frame handed to the relevance ranker
MaxVolumeTopN == 2    \* largest topn.volume handed to the volume ranker
MaxFiles == 3          \* files of a raw market directory handed to the aggregator alone
MaxBatch == 3          \* records of a raw feed handed to the normalizer alone
MaxUplift == 2        \* volume uplifts run from -MaxUplift/2 to (MaxUplift+1)/2         \* clock advances between scoring runs

\* ------------------------------------------------------------------------
\* Exact rational arithmetic (stands for Python/numpy floats)
\* ------------------------------------------------------------------------
Abs(x) == IF x < 0 THEN -x ELSE x

RECURSIVE Gcd(_, _)
Gcd(a, b) == IF b = 0 THEN a ELSE Gcd(b, a % b)

Rat(n, d) == LET g == Gcd(Abs(n), d) IN <<n \div g, d \div g>>
Int2Rat(k) == <<k, 1>>
Zero == <<0, 1>>
One == <<1, 1>>
NaN == <<>>
IsNaN(x) == x = <<>>

RAdd(a, b) == Rat(a[1] * b[2] + b[1] * a[2], a[2] * b[2])
RNeg(a) == <<-a[1], a[2]>>
RSub(a, b) == RAdd(a, RNeg(b))
RMul(a, b) == Rat(a[1] * b[1], a[2] * b[2])
RDiv(a, b) == IF b[1] > 0 THEN Rat(a[1] * b[2], a[2] * b[1])
              ELSE Rat(-(a[1] * b[2]), a[2] * (-b[1]))
\* order: integer parts first, then the fractional remainders
RLt(a, b) == LET qa == a[1] \div a[2]
                 qb == b[1] \div b[2]
             IN IF qa # qb THEN qa < qb
                ELSE (a[1] % a[2]) * b[2] < (b[1] % b[2]) * a[2]
RLe(a, b) == ~RLt(b, a)
\* Python's max(a, b) / min(a, b): the first argument unless the second beats it
PyMax(a, b) == IF RLt(a, b) THEN b ELSE a
PyMin(a, b) == IF RLt(b, a) THEN b ELSE a
\* Series.clip / np.clip
Clip(x, lo, hi) == IF RLt(x, lo) THEN lo ELSE IF RLt(hi, x) THEN hi ELSE x
\* Series.fillna on one cell
FillNa(x, dflt) == IF IsNaN(x) THEN dflt ELSE x

\* ------------------------------------------------------------------------
\* Generic helpers on sequences (DataFrames are sequences of row records)
\* ------------------------------------------------------------------------
Range(s) == {s[i] : i \in 1..Len(s)}

\* stable sort: rows in Lt order, ties keep their original order
StableSort(s, Lt(_, _)) ==
  LET n == Len(s)
      before(j, i) == Lt(s[j], s[i]) \/ (~Lt(s[i], s[j]) /\ j < i)
      pos(i) == 1 + Cardinality({j \in 1..n : j # i /\ before(j, i)})
  IN [k \in 1..n |-> s[CHOOSE i \in 1..n : pos(i) = k]]

\* DataFrame.drop_duplicates(keep="first") under a projection key
DropDuplicatesBy(s, Key(_)) ==
  LET keep == {i \in 1..Len(s) : \A j \in 1..(i - 1) : Key(s[j]) # Key(s[i])}
      idx(k) == CHOOSE i \in keep : Cardinality({j \in keep : j < i}) = k - 1
  IN [k \in 1..Cardinality(keep) |-> s[idx(k)]]

\* boolean-mask selection df[mask]
SelectRows(s, P(_)) ==
  LET keep == {i \in 1..Len(s) : P(s[i])}
      idx(k) == CHOOSE i \in keep : Cardinality({j \in keep : j < i}) = k - 1
  IN [k \in 1..Cardinality(keep) |-> s[idx(k)]]

\* lexicographic order on character sequences under a character ranking
RECURSIVE SeqLt(_, _, _)
SeqLt(s, t, rank) ==
  IF t = <<>> THEN FALSE
  ELSE IF s = <<>> THEN TRUE
  ELSE IF s[1] # t[1] THEN rank[s[1]] < rank[t[1]]
  ELSE SeqLt(Tail(s), Tail(t), rank)

RECURSIVE Flatten(_)
Flatten(ss) == IF ss = <<>> THEN <<>> ELSE Head(ss) \o Flatten(Tail(ss))

\* a finite set as a sequence in Lt order (Lt total on the set)
SetToSortedSeq(S, Lt(_, _)) ==
  [k \in 1..Cardinality(S) |-> CHOOSE x \in S : Cardinality({y \in S : Lt(y, x)}) = k - 1]

\* ------------------------------------------------------------------------
\* Characters and identifiers
\* ------------------------------------------------------------------------
\* the characters of the modelled texts, in code-point order; a Hangul syllable is
\* written by its romanisation (one character of the text each)
AlphabetSeq == <<
  " ", "5", "A", "B", "M", "O", "U", "a", "b", "c", "m", "o", "u", "|", "gam", "gang",
  "gae", "geo", "gyeok", "gyeon", "gye", "gong", "gwan", "gyu", "geum", "geup", "gin",
  "neo", "ne", "dan", "dae", "do", "dong", "ra", "rae", "ryeok", "ryo", "ru", "ri",
  "mang", "men", "myeong", "mo", "mul", "bal", "bo", "bu", "byu", "bil", "san", "sang",
  "saeng", "seo", "seol", "se", "sok", "su", "si", "sin", "sip", "ak", "yak", "eo",
  "eon", "eop", "wan", "won", "wi", "wis", "yu", "yung", "in", "ip", "ja", "jae", "jeon",
  "jeong", "je", "ju", "jung", "jeung", "ji", "chaek", "chul", "ko", "kol", "teo", "teu",
  "pa", "pye", "pyo", "pum", "peul", "ha", "hae", "hyeop", "hye", "ho", "hwa", "hwak",
  "hoe", "hyu">>
CharRank == [c \in Range(AlphabetSeq) |-> CHOOSE i \in 1..Len(AlphabetSeq) : AlphabetSeq[i] = c]
StrLt(s, t) == SeqLt(s, t, CharRank)

\* (event_id, ticker) order used by sort_values / merge(sort)
PairLt(a, b) == StrLt(a[1], b[1]) \/ (a[1] = b[1] /\ StrLt(a[2], b[2]))

\* ------------------------------------------------------------------------
\* Signal fusion: src/signal/signal_builder.py
\* ------------------------------------------------------------------------
\* _clip01(x) = max(0.0, min(1.0, float(x)))
MutClip01(x) == PyMax(Zero, x)
Clip01(x) == PyMax(Zero, PyMin(One, x))

\* _norm_rank_score on one cell: ((max_n - rank + 1) / max_n).clip(0, 1)
MutNormRankScore(rank, max_n) == Clip(RDiv(rank, Int2Rat(max_n)), Zero, One)
NormRankScore(rank, max_n) ==
  Clip(RDiv(RAdd(RSub(Int2Rat(max_n), rank), One), Int2Rat(max_n)), Zero, One)

\* _norm_uplift on one cell: np.clip(u, 0, 1)
NormUplift(u) == Clip(u, Zero, One)

\* the decision loop body of run(), lines 158-175
MutDecideStrict(bs, base_sig, thr_buy, thr_watch, require_positive_base) ==
  IF require_positive_base /\ RLt(base_sig, Zero)
  THEN (IF RLt(thr_watch, bs) THEN "watch" ELSE "exclude")
  ELSE IF RLt(thr_buy, bs) THEN "buy"
  ELSE IF RLt(thr_watch, bs) THEN "watch"
  ELSE "exclude"
MutDecide(bs, base_sig, thr_buy, thr_watch, require_positive_base) ==
  IF RLe(thr_buy, bs) THEN "buy"
  ELSE IF RLe(thr_watch, bs) THEN "watch"
  ELSE "exclude"
Decide(bs, base_sig, thr_buy, thr_watch, require_positive_base) ==
  IF require_positive_base /\ RLt(base_sig, Zero)
  THEN (IF RLe(thr_watch, bs) THEN "watch" ELSE "exclude")
  ELSE IF RLe(thr_buy, bs) THEN "buy"
  ELSE IF RLe(thr_watch, bs) THEN "watch"
  ELSE "exclude"

\* the score columns of one joined row (lines 131-153); anyRank is the frame-level
\* test base["rank_relevance"].notna().any()
ScoreRow(row, anyRank, c) ==
  LET base_signal == FillNa(row.base_signal, Zero)
      base_signal_norm == RDiv(RAdd(base_signal, One), Int2Rat(2))
      rel_score == IF anyRank
                   THEN NormRankScore(FillNa(row.rank_relevance, Int2Rat(c.N_R + 1)), c.N_R)
                   ELSE Zero
      vol_score == NormUplift(FillNa(row.volume_uplift, Zero))
      mix_term == RMul(rel_score, vol_score)
      buy_score_raw == RAdd(RAdd(RMul(c.w_base, base_signal_norm), RMul(c.w_rel, rel_score)),
                            RAdd(RMul(c.w_vol, vol_score), RMul(c.w_mix, mix_term)))
      buy_score == Clip01(buy_score_raw)
  IN [base_signal |-> base_signal, base_signal_norm |-> base_signal_norm,
      rel_score |-> rel_score, vol_score |-> vol_score, mix_term |-> mix_term,
      buy_score_raw |-> buy_score_raw, buy_score |-> buy_score,
      decision |-> Decide(buy_score, base_signal, c.thr_buy, c.thr_watch,
                          c.require_positive_base)]

\* _build_reason raises on int(NaN) when the row has no relevance rank (line 57)
BuildReasonRaises(row) == IsNaN(row.rank_relevance)

\* a missing timestamp (pandas NaT); timestamps are minutes since an epoch, >= 0
NaT == -1
\* a missing string cell of a joined frame
NoText == "NaN"

PairKey(r) == <<r.event_id, r.ticker>>

\* rel[["event_id","ticker","rank_relevance","relevance_score"]].drop_duplicates()
RelK(rel) ==
  DropDuplicatesBy([i \in 1..Len(rel) |->
                      [event_id |-> rel[i].event_id, ticker |-> rel[i].ticker,
                       rank_relevance |-> rel[i].rank_relevance,
                       relevance_score |-> rel[i].relevance_score]],
                   LAMBDA r : r)

\* vol[["event_id","ticker","rank_volume","volume_uplift","abn_volume_z"]].drop_duplicates()
VolK(vol) ==
  DropDuplicatesBy([i \in 1..Len(vol) |->
                      [event_id |-> vol[i].event_id, ticker |-> vol[i].ticker,
                       rank_volume |-> vol[i].rank_volume,
                       volume_uplift |-> vol[i].volume_uplift,
                       abn_volume_z |-> vol[i].abn_volume_z]],
                   LAMBDA r : r)

\* ev[[...]].drop_duplicates("event_id"), after _safe(ev, "base_signal", 0.0)
EvK(ev) ==
  DropDuplicatesBy([i \in 1..Len(ev.rows) |->
                      [event_id |-> ev.rows[i].event_id,
                       published_ts |-> ev.rows[i].published_ts,
                       event_type |-> ev.rows[i].event_type,
                       base_signal |-> IF ev.scored THEN ev.rows[i].base_signal ELSE Zero,
                       title |-> ev.rows[i].title, summary |-> ev.rows[i].summary]],
                   LAMBDA r : r.event_id)

\* pd.merge(rel_k, vol_k, on=["event_id","ticker"], how="outer"): keys in sorted
\* order, every left row of a key paired with every right row of the key
MutMergeOuter(relk, volk) ==
  LET keys == {PairKey(r) : r \in Range(relk)} \cap {PairKey(v) : v \in Range(volk)}
      keySeq == SetToSortedSeq(keys, PairLt)
      join(l, r) == [event_id |-> l.event_id, ticker |-> l.ticker,
                     rank_relevance |-> l.rank_relevance,
                     relevance_score |-> l.relevance_score,
                     rank_volume |-> r.rank_volume, volume_uplift |-> r.volume_uplift,
                     abn_volume_z |-> r.abn_volume_z]
      block(k) ==
        LET L == SelectRows(relk, LAMBDA x : PairKey(x) = k)
            R == SelectRows(volk, LAMBDA x : PairKey(x) = k)
        IN Flatten([i \in 1..Len(L) |-> [j \in 1..Len(R) |-> join(L[i], R[j])]])
  IN Flatten([i \in 1..Len(keySeq) |-> block(keySeq[i])])
MergeOuter(relk, volk) ==
  LET keys == {PairKey(r) : r \in Range(relk)} \cup {PairKey(v) : v \in Range(volk)}
      keySeq == SetToSortedSeq(keys, PairLt)
      join(l, r) == [event_id |-> IF l = <<>> THEN r.event_id ELSE l.event_id,
                     ticker |-> IF l = <<>> THEN r.ticker ELSE l.ticker,
                     rank_relevance |-> IF l = <<>> THEN NaN ELSE l.rank_relevance,
                     relevance_score |-> IF l = <<>> THEN NaN ELSE l.relevance_score,
                     rank_volume |-> IF r = <<>> THEN NaN ELSE r.rank_volume,
                     volume_uplift |-> IF r = <<>> THEN NaN ELSE r.volume_uplift,
                     abn_volume_z |-> IF r = <<>> THEN NaN ELSE r.abn_volume_z]
      block(k) ==
        LET L == SelectRows(relk, LAMBDA x : PairKey(x) = k)
            R == SelectRows(volk, LAMBDA x : PairKey(x) = k)
        IN IF L = <<>> THEN [j \in 1..Len(R) |-> join(<<>>, R[j])]
           ELSE IF R = <<>> THEN [i \in 1..Len(L) |-> join(L[i], <<>>)]
           ELSE Flatten([i \in 1..Len(L) |-> [j \in 1..Len(R) |-> join(L[i], R[j])]])
  IN Flatten([i \in 1..Len(keySeq) |-> block(keySeq[i])])

\* pd.merge(base, ev_k, on="event_id", how="left")
MergeEvents(base, evk) ==
  [i \in 1..Len(base) |->
     LET E == SelectRows(evk, LAMBDA e : e.event_id = base[i].event_id)
         hit == E # <<>>
     IN [event_id |-> base[i].event_id, ticker |-> base[i].ticker,
         rank_relevance |-> base[i].rank_relevance,
         relevance_score |-> base[i].relevance_score,
         rank_volume |-> base[i].rank_volume,
         volume_uplift |-> base[i].volume_uplift,
         abn_volume_z |-> base[i].abn_volume_z,
         published_ts |-> IF hit THEN E[1].published_ts ELSE NaT,
         event_type |-> IF hit THEN E[1].event_type ELSE NoText,
         base_signal |-> IF hit THEN E[1].base_signal ELSE NaN,
         title |-> IF hit THEN E[1].title ELSE <<>>,
         summary |-> IF hit THEN E[1].summary ELSE <<>>]]

\* the joined frame of run(), lines 116-123
FusionBase(ev, rel, vol) == MergeEvents(MergeOuter(RelK(rel), VolK(vol)), EvK(ev))

\* sort_values(["event_id","buy_score"], ascending=[True, False])
SignalLt(a, b) ==
  StrLt(a.event_id, b.event_id) \/ (a.event_id = b.event_id /\ RLt(b.buy_score, a.buy_score))

\* the rows written to signals.parquet (lines 129-189) from a joined frame
SignalRows(base, c) ==
  LET anyRank == \E i \in 1..Len(base) : ~IsNaN(base[i].rank_relevance)
      out == [i \in 1..Len(base) |->
                LET sc == ScoreRow(base[i], anyRank, c)
                IN [event_id |-> base[i].event_id, ticker |-> base[i].ticker,
                    buy_score |-> sc.buy_score, decision |-> sc.decision,
                    base_signal |-> sc.base_signal,
                    base_signal_norm |-> sc.base_signal_norm,
                    rank_relevance |-> base[i].rank_relevance,
                    relevance_score |-> base[i].relevance_score,
                    rank_volume |-> base[i].rank_volume,
                    volume_uplift |-> base[i].volume_uplift,
                    abn_volume_z |-> base[i].abn_volume_z,
                    event_type |-> base[i].event_type,
                    published_ts |-> base[i].published_ts,
                    title |-> base[i].title, summary |-> base[i].summary]]
  IN StableSort(out, SignalLt)

\* ------------------------------------------------------------------------
\* Text primitives (Python str operations on character sequences)
\* ------------------------------------------------------------------------
\* str.lower() on one character
LowerChar(c) == CASE c = "A" -> "a" [] c = "B" -> "b" [] c = "M" -> "m"
                  [] c = "O" -> "o" [] c = "U" -> "u" [] OTHER -> c
Lower(s) == [i \in 1..Len(s) |-> LowerChar(s[i])]

\* p in s
Contains(s, p) == \E i \in 0..(Len(s) - Len(p)) : SubSeq(s, i + 1, i + Len(p)) = p

\* s.count(p): non-overlapping occurrences, left to right
RECURSIVE Count(_, _)
Count(s, p) ==
  IF p = <<>> THEN Len(s) + 1
  ELSE IF Len(s) < Len(p) THEN 0
  ELSE IF SubSeq(s, 1, Len(p)) = p THEN 1 + Count(SubSeq(s, Len(p) + 1, Len(s)), p)
  ELSE Count(Tail(s), p)

\* s.strip() for the blank character
RECURSIVE LStrip(_)
LStrip(s) == IF s # <<>> /\ Head(s) = " " THEN LStrip(Tail(s)) ELSE s
RECURSIVE RStrip(_)
RStrip(s) == IF s # <<>> /\ s[Len(s)] = " " THEN RStrip(SubSeq(s, 1, Len(s) - 1)) ELSE s
Strip(s) == RStrip(LStrip(s))

\* re.sub(r"\s+", " ", s)
RECURSIVE SquashBlanks(_)
SquashBlanks(s) ==
  IF Len(s) < 2 THEN s
  ELSE IF s[1] = " " /\ s[2] = " " THEN SquashBlanks(Tail(s))
  ELSE <<s[1]>> \o SquashBlanks(Tail(s))

\* sum of a sequence of integers
RECURSIVE SumSeq(_)
SumSeq(s) == IF s = <<>> THEN 0 ELSE Head(s) + SumSeq(Tail(s))

\* ------------------------------------------------------------------------
\* Event normalizer: src/eventing/event_normalizer.py
\* ------------------------------------------------------------------------
\* DEFAULT_RULES, in dictionary order
DEFAULT_RULES == <<
  [etype |-> "policy", kws |-> <<
     <<"jeong", "chaek">>, <<"gyu", "je">>, <<"wan", "hwa">>, <<"jeong", "bu">>,
     <<"bo", "do", "ja", "ryo">>, <<"geum", "yung", "wi", "won", "hoe">>,
     <<"gong", "jeong", "geo", "rae", "wi", "won", "hoe">>, <<"gwan", "se">>,
     <<"gwan", "bo">>, <<"ji", "won", " ", "hwak", "dae">>>>],
  [etype |-> "celebrity_comment", kws |-> <<
     <<"bal", "eon">>, <<"ko", "men", "teu">>, <<"gyeon", "hae">>, <<"teu", "wis">>,
     <<"in", "teo", "byu">>, <<"yu", "myeong">>, <<"in", "peul", "ru", "eon", "seo">>,
     <<"geo", "mul">>, <<"bil", "ri", "eo", "ne", "eo">>, <<"dae", "ju", "ju">>>>],
  [etype |-> "collaboration", kws |-> <<
     <<"kol", "ra", "bo">>, <<"hyeop", "eop">>, <<"je", "hyu">>,
     <<"pa", "teu", "neo", "sip">>, <<"M", "O", "U">>, <<"gong", "dong">>,
     <<"hyeop", "ryeok">>, <<"gong", "dong", "gae", "bal">>>>],
  [etype |-> "industry", kws |-> <<
     <<"san", "eop">>, <<"eop", "gye">>, <<"gong", "geup", "mang">>, <<"su", "chul">>,
     <<"su", "ip">>, <<"saeng", "san">>, <<"ra", "in">>, <<"jeung", "seol">>,
     <<"gam", "san">>, <<"chul", "si">>, <<"sin", "je", "pum">>>>]>>

EMPHASIS_KWS == <<
     <<"gin", "geup">>, <<"sok", "bo">>, <<"jeon", "gyeok">>, <<"dae", "gyu", "mo">>,
     <<"hwak", "dae">>, <<"jung", "dan">>, <<"pye", "ji">>, <<"in", "ha">>,
     <<"in", "sang">>, <<"wan", "hwa">>, <<"gang", "hwa">>, <<"su", "hye">>,
     <<"ak", "jae">>, <<"ho", "jae">>, <<"su", "ju">>, <<"gye", "yak">>, <<"chul", "si">>>>

\* " KST" -> "+09:00" (line 35): nine hours, in minutes
KstOffsetMinutes == 540

\* _parse_ts: a published cell is empty, unparsable, or a clock reading with or
\* without the KST suffix; pd.to_datetime(utc=True) reads a zoneless one as UTC
ParseTs(p) == IF p.kind # "time" THEN NaT
              ELSE IF p.kst THEN p.clock - KstOffsetMinutes ELSE p.clock

\* _gen_event_id: sha256(id or "title|link")[:24]; the digest is identified with
\* the hashed string (the hash is taken to be injective)
GenEventId(row) == IF row.id # <<>> THEN row.id ELSE row.title \o <<"|">> \o row.link

\* _merge_rules: built-in keywords plus configured ones, category order kept,
\* new categories appended
MutMergeRules(cfg_rules) ==
  LET known == {DEFAULT_RULES[i].etype : i \in 1..Len(DEFAULT_RULES)}
      extra(t) == {cfg_rules[j].kws : j \in {j \in 1..Len(cfg_rules) : cfg_rules[j].etype = t}}
      builtin == [i \in 1..Len(DEFAULT_RULES) |->
                    [etype |-> DEFAULT_RULES[i].etype,
                     kws |-> IF extra(DEFAULT_RULES[i].etype) = {}
                             THEN Range(DEFAULT_RULES[i].kws)
                             ELSE UNION {Range(k) : k \in extra(DEFAULT_RULES[i].etype)}]]
      added == SelectRows(cfg_rules, LAMBDA r : r.etype \notin known)
  IN builtin \o [j \in 1..Len(added) |-> [etype |-> added[j].etype, kws |-> Range(added[j].kws)]]
MergeRules(cfg_rules) ==
  LET known == {DEFAULT_RULES[i].etype : i \in 1..Len(DEFAULT_RULES)}
      extra(t) == {cfg_rules[j].kws : j \in {j \in 1..Len(cfg_rules) : cfg_rules[j].etype = t}}
      builtin == [i \in 1..Len(DEFAULT_RULES) |->
                    [etype |-> DEFAULT_RULES[i].etype,
                     kws |-> Range(DEFAULT_RULES[i].kws)
                             \cup UNION {Range(k) : k \in extra(DEFAULT_RULES[i].etype)}]]
      added == SelectRows(cfg_rules, LAMBDA r : r.etype \notin known)
  IN builtin \o [j \in 1..Len(added) |-> [etype |-> added[j].etype, kws |-> Range(added[j].kws)]]

\* _classify_event_type
RECURSIVE ClassifyFrom(_, _)
ClassifyFrom(text, rules) ==
  IF rules = <<>> THEN "other"
  ELSE IF \E kw \in Head(rules).kws : Contains(text, Lower(kw)) THEN Head(rules).etype
  ELSE ClassifyFrom(text, Tail(rules))
ClassifyEventType(title, summary, rules) ==
  ClassifyFrom(Lower(title \o <<" ">> \o summary), rules)

\* _salience_score: min(count / 3.0, 1.0)
SalienceScore(title, summary) ==
  LET text == title \o <<" ">> \o summary
      count == SumSeq([i \in 1..Len(EMPHASIS_KWS) |-> Count(text, EMPHASIS_KWS[i])])
  IN PyMin(Rat(count, 3), One)

\* _novelty_flag on row i of the de-duplicated frame
MutNoveltyFlag(df, i) ==
  IF \E j \in 1..(i - 1) : df[j].title = df[i].title THEN 0 ELSE 1
NoveltyFlag(df, i) ==
  LET dup_title == \E j \in 1..(i - 1) : df[j].title = df[i].title
      dup_link == \E j \in 1..(i - 1) : df[j].link = df[i].link
  IN IF dup_title \/ dup_link THEN 0 ELSE 1

\* sort_values("published_ts", na_position="last")
TsLt(a, b) == a.published_ts # NaT /\ (b.published_ts = NaT \/ a.published_ts < b.published_ts)

\* df["_key"] = id where len(id) > 0, else link (line 130)
MutDedupKey(row) == row.link
DedupKey(row) == IF Len(row.id) > 0 THEN row.id ELSE row.link

\* run(), lines 127-159: the rows written to events.parquet from a raw batch
NormalizeRows(raw, cfg_rules) ==
  LET df == DropDuplicatesBy(raw, DedupKey)
      rules == MergeRules(cfg_rules)
      out == [i \in 1..Len(df) |->
                [event_id |-> GenEventId(df[i]),
                 published_ts |-> ParseTs(df[i].published),
                 event_type |-> ClassifyEventType(df[i].title, df[i].summary, rules),
                 title |-> df[i].title, summary |-> df[i].summary, link |-> df[i].link,
                 source |-> df[i].source, feed_name |-> df[i].feed_name,
                 salience |-> SalienceScore(df[i].title, df[i].summary),
                 novelty |-> NoveltyFlag(df, i),
                 polarity |-> NaN, impact_strength |-> NaN, confidence |-> NaN,
                 base_signal |-> NaN]]
  IN StableSort(out, TsLt)

\* ------------------------------------------------------------------------
\* Scoring engine: src/scoring/basic_scoring.py
\* ------------------------------------------------------------------------
\* _kw_score: how many of the keywords occur in the text
KwScore(text, kws) ==
  IF text = <<>> THEN 0
  ELSE Cardinality({i \in 1..Len(kws) : kws[i] # <<>> /\ Contains(Lower(text), Lower(kws[i]))})

\* _clip11(x) = max(-1.0, min(1.0, float(x)))
Clip11(x) == PyMax(RNeg(One), PyMin(One, x))

\* _polarity
MutPolarity(title, summary, wpol) ==
  LET pos == KwScore(title, wpol.positive_kws) + KwScore(summary, wpol.positive_kws)
      neg == KwScore(title, wpol.negative_kws) + KwScore(summary, wpol.negative_kws)
  IN Int2Rat(pos - neg)
Polarity(title, summary, wpol) ==
  LET pos == KwScore(title, wpol.positive_kws) + KwScore(summary, wpol.positive_kws)
      neg == KwScore(title, wpol.negative_kws) + KwScore(summary, wpol.negative_kws)
      denom == IF pos + neg > 0 THEN pos + neg ELSE 1
  IN Clip11(Rat(pos - neg, denom))

\* wimp.get(etype, 1.0): the configured multiplier of an event type, default 1
TypeWeight(wimp, etype) ==
  IF etype \in DOMAIN wimp.type_w THEN wimp.type_w[etype] ELSE One

\* _impact: clip01(type_w * (sal_w * sal + nov_w * nov) / 1.2)
Impact(row, wimp) ==
  LET etype == IF row.event_type = "" THEN "other" ELSE row.event_type
      type_w == TypeWeight(wimp, etype)
      raw == RMul(type_w, RAdd(RMul(wimp.salience_weight, row.salience),
                               RMul(wimp.novelty_weight, Int2Rat(row.novelty))))
  IN Clip01(RDiv(raw, Rat(12, 10)))

\* _minutes_since returns 1e9 for a missing timestamp (line 58)
MissingAgeMinutes == 1000000000

\* _minutes_since: max(0, now - ts) in minutes
MinutesSince(ts, clock) ==
  IF ts = NaT THEN MissingAgeMinutes ELSE IF clock - ts < 0 THEN 0 ELSE clock - ts

\* source_trust_tbl.get(feed, source_trust_tbl.get(src, default_trust))
SourceTrust(row, wconf) ==
  LET tbl == wconf.source_trust
      default_trust == IF <<"default">> \in DOMAIN tbl THEN tbl[<<"default">>] ELSE Rat(1, 2)
      feed == Lower(row.feed_name)
      src == Lower(row.source)
  IN IF feed \in DOMAIN tbl THEN tbl[feed]
     ELSE IF src \in DOMAIN tbl THEN tbl[src]
     ELSE default_trust

\* _confidence
Confidence(row, wconf, clock) ==
  LET trust == SourceTrust(row, wconf)
      tdecay == wconf.time_decay_minutes
      mins == MinutesSince(row.published_ts, clock)
      time_factor == IF mins <= 0 THEN One
                     ELSE RDiv(One, RAdd(One, RDiv(Int2Rat(mins), PyMax(One, tdecay))))
      conf == PyMax(RMul(trust, time_factor), wconf.min_confidence)
  IN Clip01(conf)

\* run(), lines 102-109, on one row
MutScoreEvent(row, w, clock) ==
  LET polarity == Clip11(RAdd(FillNa(row.polarity, Zero),
                              Polarity(row.title, row.summary, w.polarity)))
      impact_strength == Impact(row, w.impact)
      confidence == Confidence(row, w.confidence, clock)
      base_signal == Clip(RMul(RMul(polarity, impact_strength), confidence), RNeg(One), One)
  IN [row EXCEPT !.polarity = polarity, !.impact_strength = impact_strength,
                 !.confidence = confidence, !.base_signal = base_signal]
ScoreEvent(row, w, clock) ==
  LET polarity == Polarity(row.title, row.summary, w.polarity)
      impact_strength == Impact(row, w.impact)
      confidence == Confidence(row, w.confidence, clock)
      base_signal == Clip(RMul(RMul(polarity, impact_strength), confidence), RNeg(One), One)
  IN [row EXCEPT !.polarity = polarity, !.impact_strength = impact_strength,
                 !.confidence = confidence, !.base_signal = base_signal]

ScoreRows(rows, w, clock) == [i \in 1..Len(rows) |-> ScoreEvent(rows[i], w, clock)]

\* ------------------------------------------------------------------------
\* Entity linker: src/mapping/entity_linker.py
\* ------------------------------------------------------------------------
\* _norm: strip, lower, runs of blanks to one blank
Norm(s) == SquashBlanks(Lower(Strip(s)))

\* _contains_any: 1 when some non-empty key occurs in the text
ContainsAny(text, keys) ==
  IF \E i \in 1..Len(keys) : Norm(keys[i]) # <<>> /\ Contains(Norm(text), Norm(keys[i]))
  THEN 1 ELSE 0

\* _count_in: occurrences of all non-empty keys
CountIn(text, keys) ==
  SumSeq([i \in 1..Len(keys) |->
            IF Norm(keys[i]) = <<>> THEN 0 ELSE Count(Norm(text), Norm(keys[i]))])

PyOr(a, b) == IF a # 0 THEN a ELSE b

\* max_raw = 5.0 (line 95)
MaxRawScore == 5

\* _score_row: the normalised score
ScoreLink(title, summary, salience, names, brands, w) ==
  LET name_hit == PyOr(ContainsAny(title, names), ContainsAny(summary, names))
      brand_hit == PyOr(ContainsAny(title, brands), ContainsAny(summary, brands))
      title_count == CountIn(title, names) + CountIn(title, brands)
      summary_count == CountIn(summary, names) + CountIn(summary, brands)
      score == RAdd(RAdd(RMul(w.name_hit, Int2Rat(name_hit)),
                         RMul(w.brand_hit, Int2Rat(brand_hit))),
                    RAdd(RAdd(RMul(w.title_keyword, Int2Rat(title_count)),
                              RMul(w.summary_keyword, Int2Rat(summary_count))),
                         RMul(w.salience_boost, salience)))
  IN PyMin(RDiv(score, Int2Rat(MaxRawScore)), One)

\* str(tkr): an alias key is a YAML scalar, a string or an integer, given by its text
PyStr(key) == key.text

\* the links of one event row, in alias order (lines 146-161)
LinksOfEvent(r, aliases, w) ==
  LET cand == [k \in 1..Len(aliases) |->
                 [event_id |-> r.event_id, ticker |-> PyStr(aliases[k].key),
                  relevance_score |-> ScoreLink(r.title, r.summary, r.salience,
                                                aliases[k].names, aliases[k].brands, w),
                  named |-> aliases[k].names # <<>> \/ aliases[k].brands # <<>>]]
      kept == SelectRows(cand, LAMBDA c : c.named /\ RLt(Zero, c.relevance_score))
  IN [k \in 1..Len(kept) |-> [event_id |-> kept[k].event_id, ticker |-> kept[k].ticker,
                              relevance_score |-> kept[k].relevance_score]]

\* sort_values(["event_id","relevance_score"], ascending=[True, False])
LinkLt(a, b) ==
  StrLt(a.event_id, b.event_id)
    \/ (a.event_id = b.event_id /\ RLt(b.relevance_score, a.relevance_score))

\* rows_out of run(), lines 139-161, before the sort
LinkRows(evRows, aliases, w) ==
  Flatten([i \in 1..Len(evRows) |-> LinksOfEvent(evRows[i], aliases, w)])

\* ------------------------------------------------------------------------
\* Relevance ranker: src/ranking/relevance_topn.py
\* ------------------------------------------------------------------------
\* groupby("event_id")[col].rank("dense", ascending=False) for row i
MutDenseRankDesc(rows, i, Val(_)) ==
  1 + Cardinality({j \in 1..Len(rows) :
                     rows[j].event_id = rows[i].event_id /\ RLt(Val(rows[i]), Val(rows[j]))})
DenseRankDesc(rows, i, Val(_)) ==
  1 + Cardinality({Val(rows[j]) : j \in {j \in 1..Len(rows) :
                     rows[j].event_id = rows[i].event_id /\ RLt(Val(rows[i]), Val(rows[j]))}})

\* df.groupby("event_id")["relevance_score"].rank("dense", ascending=False) at
\* row i (line 45)
MutRelevanceRank(mp, i) == MutDenseRankDesc(mp, i, LAMBDA r : r.relevance_score)
RelevanceRank(mp, i) == DenseRankDesc(mp, i, LAMBDA r : r.relevance_score)

\* sort_values(["event_id","rank_relevance","relevance_score"], [True, True, False])
RankLt(a, b) ==
  \/ StrLt(a.event_id, b.event_id)
  \/ a.event_id = b.event_id /\ RLt(a.rank_relevance, b.rank_relevance)
  \/ a.event_id = b.event_id /\ a.rank_relevance = b.rank_relevance
       /\ RLt(b.relevance_score, a.relevance_score)

\* mp.merge(evm, on="event_id", how="left") with the rank column (lines 38-45)
RankedLinks(mp, ev) ==
  LET evm == DropDuplicatesBy(ev.rows, LAMBDA r : r.event_id)
  IN [i \in 1..Len(mp) |->
        LET E == SelectRows(evm, LAMBDA e : e.event_id = mp[i].event_id)
            hit == E # <<>>
        IN [event_id |-> mp[i].event_id, ticker |-> mp[i].ticker,
            relevance_score |-> mp[i].relevance_score,
            published_ts |-> IF hit THEN E[1].published_ts ELSE NaT,
            event_type |-> IF hit THEN E[1].event_type ELSE NoText,
            base_signal |-> IF ~hit THEN NaN
                            ELSE IF ev.scored THEN E[1].base_signal ELSE Zero,
            salience |-> IF hit THEN E[1].salience ELSE NaN,
            novelty |-> IF hit THEN E[1].novelty ELSE -1,
            rank_relevance |-> Int2Rat(RelevanceRank(mp, i))]]

\* top_rel of run(), lines 47-49
MutTopRelevance(mp, ev, N_R) ==
  StableSort(SelectRows(RankedLinks(mp, ev), LAMBDA r : RLe(r.rank_relevance, Int2Rat(N_R + 1))),
             RankLt)
TopRelevance(mp, ev, N_R) ==
  StableSort(SelectRows(RankedLinks(mp, ev), LAMBDA r : RLe(r.rank_relevance, Int2Rat(N_R))),
             RankLt)

\* ------------------------------------------------------------------------
\* Market aggregator: src/ingestion/marketdata_ingestor.py
\* ------------------------------------------------------------------------
\* candidate column names in priority order (lines 33-38); Korean names romanised
TICKER_CANDIDATES == <<"ticker", "symbol", "jongmokkodeu", "kodeu">>
TS_CANDIDATES == <<"ts", "timestamp", "datetime", "time", "georaesigak", "chegyeolsigak",
                   "ilsi", "naljjasigan">>
DATE_CANDIDATES == <<"date", "naljja", "ilja">>
TIME_CANDIDATES == <<"time", "sigan", "sigak">>
VOLUME_CANDIDATES == <<"volume", "georaeryang", "chegyeollyang">>
PRICE_CANDIDATES == <<"price", "close", "chegyeolga", "jongga", "hyeonjaega">>

\* no column found (Python None)
NoColumn == ""

\* _find_first: the first candidate that is a column of the frame (headers are
\* lower-case in the modelled files)
FindFirst(header, candidates) ==
  LET hits == {i \in 1..Len(candidates) : candidates[i] \in header}
  IN IF hits = {} THEN NoColumn
     ELSE candidates[CHOOSE i \in hits : \A j \in hits : i <= j]

\* the name of the joined date+time column (line 63)
TmpTs == "__tmp_ts__"

\* _resolve_columns: the four column names, ts being TmpTs when it is built from
\* a date and a time column; missing is the set of required columns not found
ResolveColumns(header) ==
  LET ticker_col == FindFirst(header, TICKER_CANDIDATES)
      ts_found == FindFirst(header, TS_CANDIDATES)
      vol_col == FindFirst(header, VOLUME_CANDIDATES)
      price_col == FindFirst(header, PRICE_CANDIDATES)
      dcol == FindFirst(header, DATE_CANDIDATES)
      tcol == FindFirst(header, TIME_CANDIDATES)
      ts_col == IF ts_found # NoColumn THEN ts_found
                ELSE IF dcol # NoColumn /\ tcol # NoColumn THEN TmpTs
                ELSE NoColumn
  IN [ticker_col |-> ticker_col, ts_col |-> ts_col, vol_col |-> vol_col,
      price_col |-> price_col, dcol |-> dcol, tcol |-> tcol,
      missing |-> {c \in {"ticker", "ts", "volume"} :
                     \/ c = "ticker" /\ ticker_col = NoColumn
                     \/ c = "ts" /\ ts_col = NoColumn
                     \/ c = "volume" /\ vol_col = NoColumn}]

\* _parse_ts_series on one cell, floored to the minute. A cell is unparsable or a
\* clock reading (minutes, seconds) with or without a +09:00 offset. tz_localize is
\* called with an errors= argument it does not take, so the fallback
\* pd.to_datetime(utc=True) decides: a zoneless reading is taken as UTC.
ParseMarketTs(cell) ==
  IF cell.kind # "time" THEN NaT
  ELSE IF cell.kst THEN cell.clock - KstOffsetMinutes ELSE cell.clock

\* the timestamp cell of a raw row under the resolved columns (lines 59-64, 109)
TsCell(row, rc) ==
  IF rc.ts_col # TmpTs THEN row[rc.ts_col]
  ELSE [kind |-> IF row[rc.dcol].kind = "time" /\ row[rc.tcol].kind = "time"
                 THEN "time" ELSE "garbage",
        clock |-> row[rc.dcol].clock + row[rc.tcol].clock,
        sec |-> row[rc.tcol].sec, kst |-> row[rc.tcol].kst]

\* _read_one on a file whose required columns resolve: the standard-schema rows.
\* The rows with a parsed timestamp are kept and renumbered from 0 (lines 110-119);
\* the price column, when there is one, is assigned as a Series that still has
\* the labels of the raw file (line 123), so output row k takes the price of raw
\* row k if that row was kept and NaN otherwise. A file without price column
\* has no price; pd.concat fills it with NaN (line 147).
ReadOne(file) ==
  LET rc == ResolveColumns(file.header)
      parsed == [i \in 1..Len(file.rows) |->
                   [ticker |-> Strip(file.rows[i][rc.ticker_col]),
                    ts |-> ParseMarketTs(TsCell(file.rows[i], rc)),
                    volume |-> FillNa(file.rows[i][rc.vol_col], Zero)]]
      kept == SetToSortedSeq({i \in 1..Len(parsed) : parsed[i].ts # NaT},
                             LAMBDA a, b : a < b)
  IN [k \in 1..Len(kept) |->
        [ticker |-> parsed[kept[k]].ticker, ts |-> parsed[kept[k]].ts,
         volume |-> parsed[kept[k]].volume,
         price |-> IF rc.price_col # NoColumn /\ parsed[k].ts # NaT
                   THEN file.rows[k][rc.price_col] ELSE NaN]]

\* the files of a batch that load (lines 134-141): one that misses a required
\* column raises inside the try and is skipped
MutLoadedParts(files) ==
  LET bad == {i \in 1..Len(files) : ResolveColumns(files[i].header).missing # {}}
      stop == IF bad = {} THEN Len(files) + 1 ELSE CHOOSE i \in bad : \A j \in bad : i <= j
  IN [i \in 1..(stop - 1) |-> ReadOne(files[i])]
LoadedParts(files) ==
  LET ok == SelectRows(files, LAMBDA f : ResolveColumns(f.header).missing = {})
  IN [i \in 1..Len(ok) |-> ReadOne(ok[i])]

BarLt(a, b) == StrLt(a[1], b[1]) \/ (a[1] = b[1] /\ a[2] < b[2])

RECURSIVE RSumSeq(_)
RSumSeq(s) == IF s = <<>> THEN Zero ELSE RAdd(Head(s), RSumSeq(Tail(s)))

\* groupby(["ticker","ts"], as_index=False).agg(volume=("volume","sum")): the
\* result has the columns ticker, ts and volume only
MutAggregate(df) ==
  LET keys == SetToSortedSeq({<<df[i].ticker, df[i].ts>> : i \in 1..Len(df)}, BarLt)
  IN [k \in 1..Len(keys) |->
        LET grp == SelectRows(df, LAMBDA r : <<r.ticker, r.ts>> = keys[k])
        IN [ticker |-> keys[k][1], ts |-> keys[k][2], volume |-> grp[1].volume]]
Aggregate(df) ==
  LET keys == SetToSortedSeq({<<df[i].ticker, df[i].ts>> : i \in 1..Len(df)}, BarLt)
  IN [k \in 1..Len(keys) |->
        LET grp == SelectRows(df, LAMBDA r : <<r.ticker, r.ts>> = keys[k])
        IN [ticker |-> keys[k][1], ts |-> keys[k][2],
            volume |-> RSumSeq([i \in 1..Len(grp) |-> grp[i].volume])]]

\* ------------------------------------------------------------------------
\* Volume anomaly ranker: src/ranking/volume_topn.py
\* ------------------------------------------------------------------------
MinutesPerDay == 1440

\* the divisor 1e-9 of lines 49-50, as its reciprocal
EpsilonInverse == 1000000000

Sgn(x) == IF x[1] > 0 THEN 1 ELSE IF x[1] < 0 THEN -1 ELSE 0

\* abn_volume_z = diff / std is kept exactly as <<sign, n, d, e>>: for e = 0 (std > 0)
\* z^2 = n/d, the ratio of diff^2 and the sample variance; for e = 1 (std = 0)
\* |z| = (n/d) * 1e9. The volumes of the model keep every e = 0 value below 1e9.
ZeroZ == <<0, 0, 1, 0>>
ZOf(diff, var) ==
  IF diff[1] = 0 THEN ZeroZ
  ELSE IF var[1] > 0 THEN LET q == RDiv(RMul(diff, diff), var) IN <<Sgn(diff), q[1], q[2], 0>>
  ELSE <<Sgn(diff), Abs(diff[1]), diff[2], 1>>
ZMagLt(a, b) == a[4] < b[4] \/ (a[4] = b[4] /\ RLt(<<a[2], a[3]>>, <<b[2], b[3]>>))
ZLt(a, b) ==
  \/ a[1] < b[1]
  \/ a[1] = 1 /\ b[1] = 1 /\ ZMagLt(a, b)
  \/ a[1] = -1 /\ b[1] = -1 /\ ZMagLt(b, a)

Mean(vals) == IF vals = <<>> THEN Zero ELSE RDiv(RSumSeq(vals), Int2Rat(Len(vals)))

\* Series.std(ddof=1) squared; 0 for fewer than two values (line 46)
SampleVar(vals) ==
  IF Len(vals) <= 1 THEN Zero
  ELSE LET m == Mean(vals)
       IN RDiv(RSumSeq([i \in 1..Len(vals) |-> RMul(RSub(vals[i], m), RSub(vals[i], m))]),
               Int2Rat(Len(vals) - 1))

ZeroMetrics == [baseline_mean |-> Zero, baseline_var |-> Zero, post_mean |-> Zero,
                volume_uplift |-> Zero, abn_volume_z |-> ZeroZ]

\* _calc_metrics
MutCalcMetrics(mkt, ticker, t0, baseline_days, post_minutes) ==
  IF t0 = NaT THEN ZeroMetrics
  ELSE
    LET t_start == t0 - baseline_days * MinutesPerDay
        t_end_post == t0 + post_minutes
        sub == SelectRows(mkt, LAMBDA b : b.ticker = ticker /\ b.ts >= t_start
                                          /\ b.ts < t_end_post)
        base == SelectRows(sub, LAMBDA b : b.ts <= t0)
        post == SelectRows(sub, LAMBDA b : b.ts >= t0)
        base_mean == Mean([i \in 1..Len(base) |-> base[i].volume])
        base_var == SampleVar([i \in 1..Len(base) |-> base[i].volume])
        post_mean == Mean([i \in 1..Len(post) |-> post[i].volume])
        diff == RSub(post_mean, base_mean)
        uplift == IF base_mean[1] > 0 THEN RDiv(diff, base_mean)
                  ELSE RMul(diff, Int2Rat(EpsilonInverse))
    IN IF sub = <<>> THEN ZeroMetrics
       ELSE [baseline_mean |-> base_mean, baseline_var |-> base_var,
             post_mean |-> post_mean, volume_uplift |-> uplift,
             abn_volume_z |-> ZOf(diff, base_var)]
CalcMetrics(mkt, ticker, t0, baseline_days, post_minutes) ==
  IF t0 = NaT THEN ZeroMetrics
  ELSE
    LET t_start == t0 - baseline_days * MinutesPerDay
        t_end_post == t0 + post_minutes
        sub == SelectRows(mkt, LAMBDA b : b.ticker = ticker /\ b.ts >= t_start
                                          /\ b.ts < t_end_post)
        base == SelectRows(sub, LAMBDA b : b.ts < t0)
        post == SelectRows(sub, LAMBDA b : b.ts >= t0)
        base_mean == Mean([i \in 1..Len(base) |-> base[i].volume])
        base_var == SampleVar([i \in 1..Len(base) |-> base[i].volume])
        post_mean == Mean([i \in 1..Len(post) |-> post[i].volume])
        diff == RSub(post_mean, base_mean)
        uplift == IF base_mean[1] > 0 THEN RDiv(diff, base_mean)
                  ELSE RMul(diff, Int2Rat(EpsilonInverse))
    IN IF sub = <<>> THEN ZeroMetrics
       ELSE [baseline_mean |-> base_mean, baseline_var |-> base_var,
             post_mean |-> post_mean, volume_uplift |-> uplift,
             abn_volume_z |-> ZOf(diff, base_var)]

\* sort_values(["event_id","rank_volume","volume_uplift","abn_volume_z"],
\*             ascending=[True, True, False, False])
VolLt(a, b) ==
  \/ StrLt(a.event_id, b.event_id)
  \/ a.event_id = b.event_id /\ RLt(a.rank_volume, b.rank_volume)
  \/ a.event_id = b.event_id /\ a.rank_volume = b.rank_volume
       /\ RLt(b.volume_uplift, a.volume_uplift)
  \/ a.event_id = b.event_id /\ a.rank_volume = b.rank_volume
       /\ a.volume_uplift = b.volume_uplift /\ ZLt(b.abn_volume_z, a.abn_volume_z)

\* the frame `out` of run(), lines 99-108: every relevance row with its metrics
\* and its dense rank by uplift
VolumeFrame(rel, mkt, baseline_days, post_minutes) ==
  LET met == [i \in 1..Len(rel) |->
                CalcMetrics(mkt, rel[i].ticker, rel[i].published_ts,
                            baseline_days, post_minutes)]
      up == [i \in 1..Len(rel) |-> [event_id |-> rel[i].event_id,
                                    volume_uplift |-> met[i].volume_uplift]]
  IN [i \in 1..Len(rel) |->
        [event_id |-> rel[i].event_id, ticker |-> rel[i].ticker,
         relevance_score |-> rel[i].relevance_score,
         published_ts |-> rel[i].published_ts, event_type |-> rel[i].event_type,
         base_signal |-> rel[i].base_signal, salience |-> rel[i].salience,
         novelty |-> rel[i].novelty, rank_relevance |-> rel[i].rank_relevance,
         baseline_mean |-> met[i].baseline_mean, baseline_var |-> met[i].baseline_var,
         post_mean |-> met[i].post_mean, volume_uplift |-> met[i].volume_uplift,
         abn_volume_z |-> met[i].abn_volume_z,
         rank_volume |-> Int2Rat(DenseRankDesc(up, i, LAMBDA r : r.volume_uplift))]]

\* topv_final of run(), lines 109-113
MutTopVolume(rel, mkt, baseline_days, post_minutes, N_V) ==
  SelectRows(StableSort(VolumeFrame(rel, mkt, baseline_days, post_minutes), VolLt),
             LAMBDA r : RLt(r.rank_volume, Int2Rat(N_V)))
TopVolume(rel, mkt, baseline_days, post_minutes, N_V) ==
  SelectRows(StableSort(VolumeFrame(rel, mkt, baseline_days, post_minutes), VolLt),
             LAMBDA r : RLe(r.rank_volume, Int2Rat(N_V)))

\* ------------------------------------------------------------------------
\* Configuration: configs/params.yaml and configs/sources.yaml as load_config
\* returns them; the defaults are the ones the stages fall back to
\* ------------------------------------------------------------------------
DefaultTopN == 10
DefaultBaselineDays == 5
DefaultPostMinutes == 60
DefaultTimeDecayMinutes == 180

DefaultSignal ==
  [w_base |-> Rat(1, 2), w_rel |-> Rat(3, 10), w_vol |-> Rat(1, 5), w_mix |-> Zero,
   thr_buy |-> Rat(7, 10), thr_watch |-> Rat(1, 2), require_positive_base |-> TRUE,
   N_R |-> DefaultTopN]

DefaultRelevanceWeights ==
  [name_hit |-> One, brand_hit |-> Rat(4, 5), title_keyword |-> Rat(1, 2),
   summary_keyword |-> Rat(1, 5), salience_boost |-> Rat(1, 5)]

DefaultScoring ==
  [polarity |-> [positive_kws |-> <<>>, negative_kws |-> <<>>],
   impact |-> [type_w |-> <<>>, salience_weight |-> Rat(1, 2), novelty_weight |-> Rat(1, 2)],
   confidence |-> [source_trust |-> <<>>,
                   time_decay_minutes |-> Int2Rat(DefaultTimeDecayMinutes),
                   min_confidence |-> Rat(1, 5)]]

\* a params.yaml that names polarity keywords and weights the policy type
TunedScoring ==
  [DefaultScoring EXCEPT !.polarity = [positive_kws |-> << <<"a">> >>,
                                       negative_kws |-> << <<"b">>, <<"c">> >>],
                         !.impact.type_w = [t \in {"policy"} |-> Rat(6, 5)]]

\* sources.yaml aliases: three tickers, the first two equally easy to hit
ThreeAliases ==
  << [key |-> [text |-> <<"A">>, isInt |-> FALSE], names |-> << <<"a">> >>, brands |-> <<>>],
     [key |-> [text |-> <<"B">>, isInt |-> FALSE], names |-> << <<"b">> >>, brands |-> <<>>],
     [key |-> [text |-> <<"5">>, isInt |-> TRUE], names |-> <<>>, brands |-> << <<"c">> >>] >>

Config(aliases, scoring, n) ==
  [aliases |-> aliases, rules |-> <<>>, scoring |-> scoring,
   relevance |-> DefaultRelevanceWeights, signal |-> [DefaultSignal EXCEPT !.N_R = n],
   N_V |-> n, baseline_days |-> DefaultBaselineDays,
   post_minutes |-> DefaultPostMinutes]

\* the configurations the files on disk take in the model
Configs ==
  {Config(ThreeAliases, TunedScoring, DefaultTopN),
   Config(ThreeAliases, DefaultScoring, 1),
   Config(<<>>, TunedScoring, DefaultTopN)}

\* ------------------------------------------------------------------------
\* Inputs from outside the pipeline
\* ------------------------------------------------------------------------
At(t) == [kind |-> "time", clock |-> t, sec |-> 0, kst |-> FALSE]
AtKst(t) == [kind |-> "time", clock |-> t + KstOffsetMinutes, sec |-> 30, kst |-> TRUE]
Garbage == [kind |-> "garbage", clock |-> 0, sec |-> 0, kst |-> FALSE]

\* the publication time of the modelled events, in minutes: late enough for a
\* whole baseline window before it
T0 == DefaultBaselineDays * MinutesPerDay + 800

\* raw feed records (rows of rss_*.csv after read_csv and fillna(""))
RawA == [id |-> <<>>, title |-> <<"a", "|", "b">>, link |-> <<"c">>, published |-> At(T0),
         summary |-> <<"c">>, source |-> <<>>, feed_name |-> <<"a">>]
RawB == [id |-> <<>>, title |-> <<"a">>, link |-> <<"b", "|", "c">>, published |-> AtKst(T0),
         summary |-> <<"a">>, source |-> <<>>, feed_name |-> <<"a">>]
RawC == [id |-> <<"b">>, title |-> <<"jeong", "bu", " ", "gyu", "je", " ", "wan", "hwa", " ",
                                      "bal", "pyo">>,
         link |-> <<"c">>, published |-> Garbage, summary |-> <<>>, source |-> <<>>,
         feed_name |-> <<"a">>]
RawRecords == {RawA, RawB, RawC}

\* the feed files of the model: no entry; one record; two records whose
\* "title|link" strings coincide; a record without timestamp before another
RawBatches == {<<>>, <<RawA>>, <<RawA, RawB>>, <<RawC, RawA>>}

\* raw market files (data/raw/market/*.csv after read_csv)
FileBars ==
  [header |-> {"ticker", "ts", "volume"},
   rows |-> << [ticker |-> <<"A">>, ts |-> At(T0 - 10), volume |-> One],
               [ticker |-> <<" ", "A">>, ts |-> AtKst(T0 + 10), volume |-> Int2Rat(2)],
               [ticker |-> <<"5">>, ts |-> At(T0 + 5), volume |-> Rat(1, 2)],
               [ticker |-> <<"5">>, ts |-> Garbage, volume |-> One] >>]
FileSplit ==
  [header |-> {"symbol", "date", "sigan", "georaeryang", "price"},
   rows |-> << [symbol |-> <<"A">>, date |-> At(T0 - 20), sigan |-> At(10),
                georaeryang |-> NaN, price |-> One],
               [symbol |-> <<"B">>, date |-> At(T0), sigan |-> At(10),
                georaeryang |-> Rat(1, 2), price |-> One] >>]
FileNoVolume ==
  [header |-> {"ticker", "ts", "price"},
   rows |-> << [ticker |-> <<"A">>, ts |-> At(T0), price |-> One] >>]
MarketFiles == {FileBars, FileSplit, FileNoVolume}

\* the contents of the raw market directory in the model
MarketBatches == {<<FileBars>>, <<FileNoVolume>>, <<FileNoVolume, FileSplit, FileBars>>}

\* ------------------------------------------------------------------------
\* State
\* ------------------------------------------------------------------------
VARIABLES
  cfg,              \* what load_config() returns
  now,              \* the wall clock, in minutes
  rawFeed,          \* the latest data/raw/rss_*.csv
  rawMarket,        \* data/raw/market/*.csv, in glob order
  events,           \* data/processed/events.parquet
  mapping,          \* data/processed/mapping.parquet
  rankings,         \* data/processed/rankings.parquet
  rankings_volume,  \* data/processed/rankings_volume.parquet
  market,           \* data/processed/market.parquet
  signals,          \* data/processed/signals.parquet
  last,             \* the stage that ran last and how its run() ended
  budget,           \* how many outside changes have happened
  probe             \* input and result of a single function application

vars == <<cfg, now, rawFeed, rawMarket, events, mapping, rankings, rankings_volume,
          market, signals, last, budget, probe>>

snapshots == <<events, mapping, rankings, rankings_volume, market, signals>>

NoFile == [exists |-> FALSE, rows |-> <<>>]
File(rows) == [exists |-> TRUE, rows |-> rows]
NoEvents == [exists |-> FALSE, scored |-> FALSE, rows |-> <<>>]
NoProbe == [kind |-> "none", in |-> <<>>, out |-> <<>>]

Ran(stage, result) == [stage |-> stage, result |-> result]

Init ==
  /\ cfg = Config(ThreeAliases, TunedScoring, DefaultTopN)
  /\ now = T0
  /\ rawFeed = NoFile
  /\ rawMarket = <<>>
  /\ events = NoEvents
  /\ mapping = NoFile
  /\ rankings = NoFile
  /\ rankings_volume = NoFile
  /\ market = NoFile
  /\ signals = NoFile
  /\ last = Ran("none", "none")
  /\ budget = [feeds |-> 0, drops |-> 0, edits |-> 0, ticks |-> 0]
  /\ probe = NoProbe

\* ------------------------------------------------------------------------
\* Outside changes
\* ------------------------------------------------------------------------
\* a new rss_*.csv is dumped (rss_ingestor._dump_csv); _latest_raw_csv picks it
FeedArrives ==
  /\ budget.feeds < MaxFeeds
  /\ \E b \in RawBatches : rawFeed' = File(b)
  /\ budget' = [budget EXCEPT !.feeds = @ + 1]
  /\ last' = Ran("outside", "none")
  /\ UNCHANGED <<cfg, now, rawMarket, snapshots, probe>>

\* the raw market directory is refilled; _list_raw_csvs lists it
MarketArrives ==
  /\ budget.drops < MaxDrops
  /\ \E fs \in MarketBatches : rawMarket' = fs
  /\ budget' = [budget EXCEPT !.drops = @ + 1]
  /\ last' = Ran("outside", "none")
  /\ UNCHANGED <<cfg, now, rawFeed, snapshots, probe>>

\* params.yaml / sources.yaml are edited between runs
Reconfigure ==
  /\ budget.edits < MaxEdits
  /\ \E c \in Configs \ {cfg} : cfg' = c
  /\ budget' = [budget EXCEPT !.edits = @ + 1]
  /\ last' = Ran("outside", "none")
  /\ UNCHANGED <<now, rawFeed, rawMarket, snapshots, probe>>

\* time passes: datetime.now() of _minutes_since moves on by one decay period
Tick ==
  /\ budget.ticks < MaxTicks
  /\ now' = now + DefaultTimeDecayMinutes
  /\ budget' = [budget EXCEPT !.ticks = @ + 1]
  /\ last' = Ran("outside", "none")
  /\ UNCHANGED <<cfg, rawFeed, rawMarket, snapshots, probe>>

\* ------------------------------------------------------------------------
\* The stages: each action is one call of the stage's run()
\* ------------------------------------------------------------------------
\* event_normalizer.run(). On a batch without rows DataFrame.apply(axis=1) hands
\* back a frame, and whether the column assignment then raises depends on the
\* pandas at hand: both outcomes are allowed.
Normalizer ==
  /\ \/ /\ ~rawFeed.exists
        /\ last' = Ran("normalizer", "missing")
        /\ UNCHANGED events
     \/ /\ rawFeed.exists
        /\ rawFeed.rows = <<>>
        /\ last' = Ran("normalizer", "raised")
        /\ UNCHANGED events
     \/ /\ rawFeed.exists
        /\ events' = [exists |-> TRUE, scored |-> FALSE,
                      rows |-> NormalizeRows(rawFeed.rows, cfg.rules)]
        /\ last' = Ran("normalizer", "wrote")
  /\ UNCHANGED <<cfg, now, rawFeed, rawMarket, mapping, rankings, rankings_volume,
                 market, signals, budget, probe>>

\* basic_scoring.run()
Scoring ==
  /\ IF ~events.exists
     THEN last' = Ran("scoring", "missing") /\ UNCHANGED events
     ELSE IF events.rows = <<>>
     THEN last' = Ran("scoring", "empty_input") /\ UNCHANGED events
     ELSE /\ events' = [exists |-> TRUE, scored |-> TRUE,
                        rows |-> ScoreRows(events.rows, cfg.scoring, now)]
          /\ last' = Ran("scoring", "wrote")
  /\ UNCHANGED <<cfg, now, rawFeed, rawMarket, mapping, rankings, rankings_volume,
                 market, signals, budget, probe>>

\* entity_linker.run()
Linker ==
  /\ IF ~events.exists
     THEN last' = Ran("linker", "missing") /\ UNCHANGED mapping
     ELSE IF events.rows = <<>>
     THEN last' = Ran("linker", "empty_input") /\ UNCHANGED mapping
     ELSE IF cfg.aliases = <<>>
     THEN last' = Ran("linker", "no_aliases") /\ UNCHANGED mapping
     ELSE LET rows_out == LinkRows(events.rows, cfg.aliases, cfg.relevance)
          IN IF rows_out = <<>>
             THEN last' = Ran("linker", "empty_result") /\ UNCHANGED mapping
             ELSE /\ mapping' = File(StableSort(rows_out, LinkLt))
                  /\ last' = Ran("linker", "wrote")
  /\ UNCHANGED <<cfg, now, rawFeed, rawMarket, events, rankings, rankings_volume,
                 market, signals, budget, probe>>

\* relevance_topn.run()
MutRelevance ==
  /\ IF ~mapping.exists \/ ~events.exists
     THEN last' = Ran("relevance", "missing") /\ rankings' = File(<<>>)
     ELSE IF mapping.rows = <<>>
     THEN last' = Ran("relevance", "empty_input") /\ UNCHANGED rankings
     ELSE /\ rankings' = File(TopRelevance(mapping.rows, events, cfg.signal.N_R))
          /\ last' = Ran("relevance", "wrote")
  /\ UNCHANGED <<cfg, now, rawFeed, rawMarket, events, mapping, rankings_volume,
                 market, signals, budget, probe>>
Relevance ==
  /\ IF ~mapping.exists \/ ~events.exists
     THEN last' = Ran("relevance", "missing") /\ UNCHANGED rankings
     ELSE IF mapping.rows = <<>>
     THEN last' = Ran("relevance", "empty_input") /\ UNCHANGED rankings
     ELSE /\ rankings' = File(TopRelevance(mapping.rows, events, cfg.signal.N_R))
          /\ last' = Ran("relevance", "wrote")
  /\ UNCHANGED <<cfg, now, rawFeed, rawMarket, events, mapping, rankings_volume,
                 market, signals, budget, probe>>

\* marketdata_ingestor.run()
MarketAggregator ==
  /\ IF rawMarket = <<>>
     THEN last' = Ran("market", "missing") /\ UNCHANGED market
     ELSE LET parts == LoadedParts(rawMarket)
          IN IF parts = <<>>
             THEN last' = Ran("market", "no_valid_file") /\ UNCHANGED market
             ELSE /\ market' = File(Aggregate(Flatten(parts)))
                  /\ last' = Ran("market", "wrote")
  /\ UNCHANGED <<cfg, now, rawFeed, rawMarket, events, mapping, rankings,
                 rankings_volume, signals, budget, probe>>

\* volume_topn.run(); rankings.parquet always carries published_ts, so the frame
\* is the relevance ranking itself (line 83)
VolumeRanker ==
  /\ IF ~market.exists \/ ~events.exists \/ ~rankings.exists
     THEN last' = Ran("volume", "missing") /\ UNCHANGED rankings_volume
     ELSE IF market.rows = <<>> \/ rankings.rows = <<>>
     THEN last' = Ran("volume", "empty_input") /\ UNCHANGED rankings_volume
     ELSE /\ rankings_volume' = File(TopVolume(rankings.rows, market.rows,
                                               cfg.baseline_days, cfg.post_minutes,
                                               cfg.N_V))
          /\ last' = Ran("volume", "wrote")
  /\ UNCHANGED <<cfg, now, rawFeed, rawMarket, events, mapping, rankings, market,
                 signals, budget, probe>>

\* signal_builder.run()
Fusion ==
  /\ IF ~events.exists \/ ~rankings.exists \/ ~rankings_volume.exists
     THEN last' = Ran("fusion", "missing") /\ UNCHANGED signals
     ELSE IF events.rows = <<>> \/ (rankings.rows = <<>> /\ rankings_volume.rows = <<>>)
     THEN last' = Ran("fusion", "empty_input") /\ UNCHANGED signals
     ELSE LET base == FusionBase(events, rankings.rows, rankings_volume.rows)
          IN IF base = <<>>
             THEN last' = Ran("fusion", "empty_result") /\ UNCHANGED signals
             ELSE IF \E i \in 1..Len(base) : BuildReasonRaises(base[i])
             THEN last' = Ran("fusion", "raised") /\ UNCHANGED signals
             ELSE /\ signals' = File(SignalRows(base, cfg.signal))
                  /\ last' = Ran("fusion", "wrote")
  /\ UNCHANGED <<cfg, now, rawFeed, rawMarket, events, mapping, rankings,
                 rankings_volume, market, budget, probe>>

Next ==
  \/ FeedArrives \/ MarketArrives \/ Reconfigure \/ Tick
  \/ Normalizer \/ Scoring \/ Linker \/ Relevance
  \/ MarketAggregator \/ VolumeRanker \/ Fusion

Spec == Init /\ [][Next]_vars

\* ------------------------------------------------------------------------
\* Signal fusion on single rows: the score columns and the decision loop
\* applied once to every row and configuration of a grid
\* ------------------------------------------------------------------------
BaseSignals == {NaN, RNeg(One), Rat(-1, 5), Zero, Rat(1, 10), One}
RankCells == {NaN} \cup {Int2Rat(k) : k \in 1..MaxRank}
UpliftCells == {NaN} \cup {Rat(k, 2) : k \in (0 - MaxUplift)..(MaxUplift + 1)}
BuyScores == {Rat(k, 20) : k \in 0..20}
Thresholds == {RNeg(One), Zero, Rat(1, 2), Rat(7, 10), One, Int2Rat(2)}

\* weights.signal of params.yaml: the defaults, and every mix of zero, huge
\* negative and huge positive weights
SignalWeights ==
  {DefaultSignal} \cup
  {[DefaultSignal EXCEPT !.w_base = Int2Rat(a), !.w_rel = Int2Rat(b),
                         !.w_vol = Int2Rat(a), !.w_mix = Int2Rat(b)] :
     a \in {0 - MaxWeight, 0, MaxWeight}, b \in {0 - MaxWeight, 0, MaxWeight}}

SignalConfigs ==
  {[w EXCEPT !.N_R = n, !.require_positive_base = f] :
     w \in SignalWeights, n \in {1, DefaultTopN}, f \in BOOLEAN}

JoinedRows ==
  {[base_signal |-> b, rank_relevance |-> r, volume_uplift |-> u] :
     b \in BaseSignals, r \in RankCells, u \in UpliftCells}

\* a row with a rank makes notna().any() true; a row without one may sit in a
\* frame with or without ranked rows
RowInputs ==
  {[row |-> row, anyRank |-> any, c |-> c] :
     row \in JoinedRows, any \in BOOLEAN, c \in SignalConfigs}

DecideInputs ==
  {[bs |-> bs, base_sig |-> b, thr_buy |-> tb, thr_watch |-> tw, flag |-> f] :
     bs \in BuyScores, b \in BaseSignals \ {NaN}, tb \in Thresholds \ {RNeg(One)},
     tw \in Thresholds \ {Int2Rat(2)}, f \in BOOLEAN}

\* the pipeline at rest: nothing on disk, the default configuration
Idle ==
  /\ cfg = Config(ThreeAliases, TunedScoring, DefaultTopN)
  /\ now = T0
  /\ rawFeed = NoFile
  /\ rawMarket = <<>>
  /\ events = NoEvents
  /\ mapping = NoFile
  /\ rankings = NoFile
  /\ rankings_volume = NoFile
  /\ market = NoFile
  /\ signals = NoFile
  /\ last = Ran("none", "none")
  /\ budget = [feeds |-> 0, drops |-> 0, edits |-> 0, ticks |-> 0]

pipeline == <<cfg, now, rawFeed, rawMarket, events, mapping, rankings, rankings_volume,
              market, signals, last, budget>>

InitFusion ==
  /\ Idle
  /\ \/ \E x \in {x \in RowInputs : ~IsNaN(x.row.rank_relevance) => x.anyRank} :
          probe = [kind |-> "row", in |-> x, out |-> <<>>]
     \/ \E x \in DecideInputs : probe = [kind |-> "decide", in |-> x, out |-> <<>>]

\* lines 131-176 of signal_builder.run() on one joined row
ScoreOneRow ==
  /\ probe.kind = "row"
  /\ probe' = [kind |-> "row_done", in |-> probe.in,
               out |-> ScoreRow(probe.in.row, probe.in.anyRank, probe.in.c)]
  /\ UNCHANGED pipeline

\* lines 159-175 of signal_builder.run() on one buy_score
DecideOne ==
  /\ probe.kind = "decide"
  /\ probe' = [kind |-> "decide_done", in |-> probe.in,
               out |-> Decide(probe.in.bs, probe.in.base_sig, probe.in.thr_buy,
                              probe.in.thr_watch, probe.in.flag)]
  /\ UNCHANGED pipeline

NextFusion == ScoreOneRow \/ DecideOne

SpecFusion == InitFusion /\ [][NextFusion]_vars

\* ------------------------------------------------------------------------
\* Properties of signal fusion on single rows
\* ------------------------------------------------------------------------
\* C1: with require_positive_base enabled, a row whose base_signal is below zero
\* is never decided "buy", whatever its buy_score, the weights and the
\* thresholds are.
C1_NegativeBaseNeverBuy ==
  /\ (/\ probe.kind = "row_done"
      /\ probe.in.c.require_positive_base
      /\ ~IsNaN(probe.in.row.base_signal)
      /\ probe.in.row.base_signal[1] < 0) => probe.out.decision # "buy"
  /\ (/\ probe.kind = "decide_done"
      /\ probe.in.flag
      /\ probe.in.base_sig[1] < 0) => probe.out # "buy"

\* buy_score 0.80 with base_signal -0.2 under the default thresholds is "watch"
C1_Witness ==
  /\ probe.kind = "decide_done"
  /\ probe.in = [bs |-> Rat(4, 5), base_sig |-> Rat(-1, 5), thr_buy |-> Rat(7, 10),
                 thr_watch |-> Rat(1, 2), flag |-> TRUE]
  /\ probe.out = "watch"

\* C2: the decision is the two-step policy: with the flag on and base_signal < 0,
\* "watch" when buy_score >= watch threshold, else "exclude"; otherwise "buy"
\* when buy_score >= buy threshold, else "watch" when buy_score >= watch
\* threshold, else "exclude".
C2_TwoStepPolicy ==
  LET geq(a, b) == a[1] * b[2] >= b[1] * a[2]
      policy(bs, base, tb, tw, f) ==
        IF f /\ base[1] < 0
        THEN (IF geq(bs, tw) THEN "watch" ELSE "exclude")
        ELSE IF geq(bs, tb) THEN "buy"
        ELSE IF geq(bs, tw) THEN "watch"
        ELSE "exclude"
  IN /\ probe.kind = "decide_done" =>
          probe.out = policy(probe.in.bs, probe.in.base_sig, probe.in.thr_buy,
                             probe.in.thr_watch, probe.in.flag)
     /\ probe.kind = "row_done" =>
          probe.out.decision = policy(probe.out.buy_score, probe.out.base_signal,
                                      probe.in.c.thr_buy, probe.in.c.thr_watch,
                                      probe.in.c.require_positive_base)

\* buy_score 0.75 with base_signal 0.1 under the default thresholds is "buy"
C2_Witness ==
  /\ probe.kind = "decide_done"
  /\ probe.in = [bs |-> Rat(3, 4), base_sig |-> Rat(1, 10), thr_buy |-> Rat(7, 10),
                 thr_watch |-> Rat(1, 2), flag |-> TRUE]
  /\ probe.out = "buy"

\* C8: buy_score is the weighted sum of the four terms clipped to [0,1]: it lies
\* in [0,1] for every row and every weights, missing cells included, is 0 when
\* the sum is below 0, 1 when the sum is above 1, and the sum itself otherwise.
C8_BuyScoreInUnitInterval ==
  probe.kind = "row_done" =>
    LET s == probe.out.buy_score
        raw == probe.out.buy_score_raw
    IN /\ s[1] >= 0 /\ s[1] <= s[2]
       /\ (raw[1] < 0) => s = Zero
       /\ (raw[1] > raw[2]) => s = One
       /\ (raw[1] >= 0 /\ raw[1] <= raw[2]) => s = raw

\* a row without rank and without uplift under huge weights: the sum is far above
\* 1 and the score is 1
C8_Witness ==
  /\ probe.kind = "row_done"
  /\ IsNaN(probe.in.row.rank_relevance)
  /\ IsNaN(probe.in.row.volume_uplift)
  /\ IsNaN(probe.in.row.base_signal)
  /\ probe.in.c.w_base = Int2Rat(MaxWeight)
  /\ probe.out.buy_score_raw[1] > probe.out.buy_score_raw[2]
  /\ probe.out.buy_score = One

\* C27: under non-negative weights the buy_score of a row is not below that of
\* the same row with a lower base_signal, a larger rank_relevance or a lower
\* volume_uplift; and of two rows (or two buy_scores) on the same side of the
\* negative-base guard, the one with the higher buy_score never has the worse
\* decision, where buy is better than watch and watch better than exclude.
C27_FusionMonotone ==
  LET worth(d) == IF d = "buy" THEN 2 ELSE IF d = "watch" THEN 1 ELSE 0
      nonneg(c) == /\ RLe(Zero, c.w_base) /\ RLe(Zero, c.w_rel)
                   /\ RLe(Zero, c.w_vol) /\ RLe(Zero, c.w_mix)
      guarded(c, b) == c.require_positive_base /\ RLt(FillNa(b, Zero), Zero)
  IN /\ (probe.kind = "row_done" /\ nonneg(probe.in.c)) =>
          LET row == probe.in.row
              c == probe.in.c
              score(r) == ScoreRow(r, probe.in.anyRank, c)
          IN /\ \A b \in BaseSignals \ {NaN} :
                  (~IsNaN(row.base_signal) /\ RLe(row.base_signal, b)) =>
                    RLe(probe.out.buy_score, score([row EXCEPT !.base_signal = b]).buy_score)
             /\ \A r \in RankCells \ {NaN} :
                  (~IsNaN(row.rank_relevance) /\ RLe(row.rank_relevance, r)) =>
                    RLe(score([row EXCEPT !.rank_relevance = r]).buy_score, probe.out.buy_score)
             /\ \A u \in UpliftCells \ {NaN} :
                  (~IsNaN(row.volume_uplift) /\ RLe(row.volume_uplift, u)) =>
                    RLe(probe.out.buy_score, score([row EXCEPT !.volume_uplift = u]).buy_score)
             /\ \A other \in {r \in JoinedRows : ~IsNaN(r.rank_relevance) => probe.in.anyRank} :
                  (/\ guarded(c, other.base_signal) = guarded(c, row.base_signal)
                   /\ RLe(probe.out.buy_score, score(other).buy_score)) =>
                    worth(probe.out.decision) <= worth(score(other).decision)
     /\ probe.kind = "decide_done" =>
          LET x == probe.in
          IN \A bs \in BuyScores : \A b \in BaseSignals \ {NaN} :
               (/\ (x.flag /\ RLt(b, Zero)) = (x.flag /\ RLt(x.base_sig, Zero))
                /\ RLe(x.bs, bs)) =>
                 worth(probe.out) <= worth(Decide(bs, b, x.thr_buy, x.thr_watch, x.flag))

\* under the default weights a row of rank 2 without uplift and with base_signal
\* 1/10 is watched; the same row at rank 1 scores more, and with base_signal 1
\* it is bought
C27_Witness ==
  /\ probe.kind = "row_done"
  /\ probe.in.c = DefaultSignal
  /\ probe.in.row = [base_signal |-> Rat(1, 10), rank_relevance |-> Int2Rat(2),
                     volume_uplift |-> NaN]
  /\ probe.out.decision = "watch"
  /\ RLt(probe.out.buy_score,
         ScoreRow([probe.in.row EXCEPT !.rank_relevance = One], TRUE, probe.in.c).buy_score)
  /\ ScoreRow([probe.in.row EXCEPT !.base_signal = One], TRUE, probe.in.c).decision = "buy"

\* ------------------------------------------------------------------------
\* Properties of the pipeline
\* ------------------------------------------------------------------------
\* C3: a fusion run whose inputs hold a pair found in only one of the two
\* rankings completes, writes its output, and the output has a Signal for that
\* pair.
C3_OneSidedPairGetsSignal ==
  LET relPairs == {PairKey(r) : r \in Range(rankings.rows)}
      volPairs == {PairKey(r) : r \in Range(rankings_volume.rows)}
      oneSided == (relPairs \ volPairs) \cup (volPairs \ relPairs)
  IN (/\ last.stage = "fusion"
      /\ events.exists /\ rankings.exists /\ rankings_volume.exists
      /\ events.rows # <<>>
      /\ oneSided # {})
     => /\ last.result = "wrote"
        /\ \A p \in oneSided : \E i \in 1..Len(signals.rows) : PairKey(signals.rows[i]) = p

\* C4: after a run of a stage that found its upstream files and did not raise,
\* the stage's output holds what the stage computes from the upstream snapshots
\* and the configuration it has just read, not the result of an earlier run.
C4_CompletedRunReplacesOutput ==
  last.result \notin {"none", "missing", "raised", "no_valid_file"} =>
    /\ last.stage = "normalizer" =>
         events.rows = NormalizeRows(rawFeed.rows, cfg.rules) /\ ~events.scored
    /\ last.stage = "scoring" =>
         events.rows = ScoreRows(events.rows, cfg.scoring, now)
    /\ last.stage = "linker" =>
         mapping.rows = StableSort(LinkRows(events.rows, cfg.aliases, cfg.relevance), LinkLt)
    /\ last.stage = "relevance" =>
         rankings.rows = TopRelevance(mapping.rows, events, cfg.signal.N_R)
    /\ last.stage = "market" =>
         market.rows = Aggregate(Flatten(LoadedParts(rawMarket)))
    /\ last.stage = "volume" =>
         rankings_volume.rows =
           IF market.rows = <<>> \/ rankings.rows = <<>> THEN <<>>
           ELSE TopVolume(rankings.rows, market.rows, cfg.baseline_days,
                          cfg.post_minutes, cfg.N_V)
    /\ last.stage = "fusion" =>
         signals.rows =
           IF events.rows = <<>> THEN <<>>
           ELSE SignalRows(FusionBase(events, rankings.rows, rankings_volume.rows),
                           cfg.signal)

\* C5: after a linker run under a missing or empty alias dictionary the run has
\* not raised and the mapping output holds no link.
C5_NoAliasesEmptyMapping ==
  (last.stage = "linker" /\ events.exists /\ cfg.aliases = <<>>)
    => last.result # "raised" /\ mapping.rows = <<>>

\* C6: a stage that runs while one of its upstream files is absent returns
\* without raising and leaves every snapshot, its own output included, as it was.
C6_MissingInputLeavesSnapshots ==
  [][(\/ last'.stage = "normalizer" /\ ~rawFeed.exists
      \/ last'.stage = "scoring" /\ ~events.exists
      \/ last'.stage = "linker" /\ ~events.exists
      \/ last'.stage = "relevance" /\ (~mapping.exists \/ ~events.exists)
      \/ last'.stage = "market" /\ rawMarket = <<>>
      \/ last'.stage = "volume" /\ (~market.exists \/ ~events.exists \/ ~rankings.exists)
      \/ last'.stage = "fusion"
           /\ (~events.exists \/ ~rankings.exists \/ ~rankings_volume.exists))
     => (last'.result = "missing" /\ snapshots' = snapshots)]_vars

\* fusion has returned for want of the volume ranking while events and a
\* non-empty relevance ranking are on disk
C6_Witness ==
  /\ last = Ran("fusion", "missing")
  /\ events.exists /\ rankings.exists /\ rankings.rows # <<>>
  /\ ~rankings_volume.exists
  /\ ~signals.exists

\* C7: the output of a fusion run holds exactly one Signal for every pair of the
\* outer join of the two rankings: no pair is missing and none appears twice.
C7_OneSignalPerPair ==
  last = Ran("fusion", "wrote") =>
    LET pairs == {PairKey(r) : r \in Range(rankings.rows)}
                   \cup {PairKey(r) : r \in Range(rankings_volume.rows)}
        n == Len(signals.rows)
    IN /\ {PairKey(signals.rows[i]) : i \in 1..n} = pairs
       /\ \A i \in 1..n : \A j \in 1..n :
            PairKey(signals.rows[i]) = PairKey(signals.rows[j]) => i = j

\* ------------------------------------------------------------------------
\* The scoring engine on single events: _polarity, _impact, _confidence and the
\* base_signal product applied once to every event and configuration of a grid
\* ------------------------------------------------------------------------
Extremes == {Int2Rat(0 - MaxWeight), Zero, Int2Rat(MaxWeight)}

\* events as the normalizer writes them, with the salience cell as written or
\* replaced by an extreme value
EventInputs ==
  {[NormalizeRows(<<rec>>, <<>>)[1] EXCEPT !.salience = IF IsNaN(sal) THEN @ ELSE sal] :
     rec \in RawRecords, sal \in {NaN, Int2Rat(0 - MaxWeight), Int2Rat(MaxWeight)}}

ImpactWeights ==
  {[type_w |-> tw, salience_weight |-> sw[1], novelty_weight |-> sw[2]] :
     tw \in {<<>>} \cup {[t \in {"other", "policy"} |-> x] : x \in Extremes},
     sw \in {<<Rat(1, 2), Rat(1, 2)>>,
             <<Int2Rat(MaxWeight), Int2Rat(MaxWeight)>>,
             <<Int2Rat(MaxWeight), Int2Rat(0 - MaxWeight)>>,
             <<Int2Rat(0 - MaxWeight), Int2Rat(MaxWeight)>>}}

ConfidenceWeights ==
  {[source_trust |-> st, time_decay_minutes |-> td, min_confidence |-> mc] :
     st \in {<<>>} \cup {[k \in {<<"default">>} |-> x] : x \in Extremes \ {Zero}}
                   \cup {[k \in {<<"a">>} |-> x] : x \in Extremes \ {Int2Rat(0 - MaxWeight)}},
     td \in {Int2Rat(0 - MaxWeight), Int2Rat(DefaultTimeDecayMinutes)},
     mc \in {Int2Rat(0 - MaxWeight), Rat(1, 5), Int2Rat(MaxWeight)}}

ScoringWeights ==
  {[polarity |-> pol, impact |-> imp, confidence |-> conf] :
     pol \in {DefaultScoring.polarity, TunedScoring.polarity},
     imp \in ImpactWeights, conf \in ConfidenceWeights}

InitScoring ==
  /\ Idle
  /\ \E row \in EventInputs, w \in ScoringWeights,
        clock \in {T0 - 1, T0, T0 + DefaultTimeDecayMinutes} :
       probe = [kind |-> "event", in |-> [row |-> row, w |-> w, clock |-> clock],
                out |-> <<>>]

\* lines 102-109 of basic_scoring.run() on one event
ScoreOneEvent ==
  /\ probe.kind = "event"
  /\ probe' = [kind |-> "event_done", in |-> probe.in,
               out |-> ScoreEvent(probe.in.row, probe.in.w, probe.in.clock)]
  /\ UNCHANGED pipeline

NextScoring == ScoreOneEvent

SpecScoring == InitScoring /\ [][NextScoring]_vars

\* C9: for every event and every configuration of keywords, weights, trust,
\* decay constant and min_confidence, polarity is in [-1,1], impact_strength in
\* [0,1], confidence in [0,1], and base_signal is their product and in [-1,1].
C9_ScoreBounds ==
  probe.kind = "event_done" =>
    LET p == probe.out.polarity
        i == probe.out.impact_strength
        c == probe.out.confidence
        b == probe.out.base_signal
    IN /\ 0 - p[2] <= p[1] /\ p[1] <= p[2]
       /\ 0 <= i[1] /\ i[1] <= i[2]
       /\ 0 <= c[1] /\ c[1] <= c[2]
       /\ 0 - b[2] <= b[1] /\ b[1] <= b[2]
       /\ b = RMul(RMul(p, i), c)

\* an event with two positive keyword hits under a huge type weight and a huge
\* default trust: every factor is clipped to 1
C9_Witness ==
  /\ probe.kind = "event_done"
  /\ probe.in.w.impact.type_w # <<>>
  /\ probe.in.w.impact.type_w["other"] = Int2Rat(MaxWeight)
  /\ probe.in.w.confidence.min_confidence = Int2Rat(0 - MaxWeight)
  /\ probe.out.polarity = One
  /\ probe.out.impact_strength = One
  /\ probe.out.confidence = One
  /\ probe.out.base_signal = One

\* ------------------------------------------------------------------------
\* The relevance ranker on mapping frames: the rank, cut and sort of
\* relevance_topn.run() applied once to every frame of a grid
\* ------------------------------------------------------------------------
LinkScores == {Rat(1, 5), Rat(1, 2), One}
ProbeTickers == <<"A", "B", "5", "M">>

\* mapping frames of up to MaxLinks rows over two events; the k-th row links
\* the k-th ticker
RECURSIVE MappingFrames(_)
MappingFrames(n) ==
  IF n = 0 THEN {<<>>}
  ELSE LET shorter == MappingFrames(n - 1)
       IN shorter \cup
          {Append(q, [event_id |-> e, ticker |-> <<ProbeTickers[n]>>, relevance_score |-> sc]) :
             q \in {q \in shorter : Len(q) = n - 1},
             e \in {<<"a">>, <<"b">>}, sc \in LinkScores}

InitRanker ==
  /\ Idle
  /\ \E mp \in MappingFrames(MaxLinks) \ {<<>>}, n \in 1..MaxLinks :
       probe = [kind |-> "frame", in |-> [mp |-> mp, N_R |-> n], out |-> <<>>]

\* lines 38-49 of relevance_topn.run() on one mapping frame; the events file
\* holds none of the frame's events, so the joined event cells are missing
RankOneFrame ==
  /\ probe.kind = "frame"
  /\ probe' = [kind |-> "frame_done", in |-> probe.in,
               out |-> TopRelevance(probe.in.mp, [NoEvents EXCEPT !.exists = TRUE],
                                    probe.in.N_R)]
  /\ UNCHANGED pipeline

NextRanker == RankOneFrame

SpecRanker == InitRanker /\ [][NextRanker]_vars

\* C10: within each event of a written relevance ranking, a higher relevance
\* score never has a larger rank, equal scores have equal ranks, the best rank
\* is 1 and the ranks of an event have no gap.
C10_DenseRank ==
  LET dense(rows) ==
        \A i \in 1..Len(rows) :
          LET r == rows[i].rank_relevance
              same == {j \in 1..Len(rows) : rows[j].event_id = rows[i].event_id}
          IN /\ r[2] = 1 /\ r[1] >= 1
             /\ \A k \in 1..r[1] : \E j \in same : rows[j].rank_relevance = Int2Rat(k)
             /\ \A j \in same :
                  LET a == rows[i].relevance_score
                      b == rows[j].relevance_score
                      q == rows[j].rank_relevance
                  IN /\ (a[1] * b[2] > b[1] * a[2]) => r[1] <= q[1]
                     /\ (a = b) => r = q
  IN probe.kind = "frame_done" => dense(probe.out)

\* three links of one event, two of them tied at the top: ranks 1, 1, 2
C10_Witness ==
  /\ probe.kind = "frame_done"
  /\ Len(probe.out) = 3
  /\ probe.out[1].event_id = probe.out[3].event_id
  /\ probe.out[1].relevance_score = probe.out[2].relevance_score
  /\ probe.out[1].rank_relevance = One
  /\ probe.out[2].rank_relevance = One
  /\ probe.out[3].rank_relevance = Int2Rat(2)

\* C26 as stated: for each event, a written relevance ranking holds at most
\* N_R entries.
C26_AtMostNEntries ==
  probe.kind = "frame_done" =>
    \A i \in 1..Len(probe.out) :
      Cardinality({j \in 1..Len(probe.out) :
                     probe.out[j].event_id = probe.out[i].event_id}) <= probe.in.N_R

\* C26: for each event, a written relevance ranking holds at most N_R distinct
\* relevance scores (one per kept rank); it holds at most N_R entries when the
\* event's links have pairwise distinct scores, and tied links are kept
\* together, so the entries of an event may outnumber N_R.
C26_AtMostNScoreValues ==
  probe.kind = "frame_done" =>
    \A i \in 1..Len(probe.out) :
      LET e == probe.out[i].event_id
          kept == {j \in 1..Len(probe.out) : probe.out[j].event_id = e}
          links == {j \in 1..Len(probe.in.mp) : probe.in.mp[j].event_id = e}
      IN /\ Cardinality({probe.out[j].relevance_score : j \in kept}) <= probe.in.N_R
         /\ (\A j, k \in links :
               probe.in.mp[j].relevance_score = probe.in.mp[k].relevance_score => j = k)
              => Cardinality(kept) <= probe.in.N_R
         /\ \A j \in links :
              (probe.in.mp[j].relevance_score = probe.out[i].relevance_score)
                => \E k \in kept : probe.out[k].ticker = probe.in.mp[j].ticker

\* N_R = 1 and one event with two links tied at the top and a third below:
\* both tied links are written, the third is cut
C26_Witness ==
  /\ probe.kind = "frame_done"
  /\ probe.in.N_R = 1
  /\ Len(probe.in.mp) = 3
  /\ Len(probe.out) = 2
  /\ probe.out[1].event_id = probe.out[2].event_id
  /\ probe.out[1].rank_relevance = One
  /\ probe.out[2].rank_relevance = One

\* ------------------------------------------------------------------------
\* The volume ranker on single frames: the metrics, rank, sort and cut of
\* volume_topn.run() applied once to every market frame of a grid
\* ------------------------------------------------------------------------
\* the relevance ranking read by the probe: tickers A and B of an event
\* published at T0, and ticker A of an event without timestamp
ProbeRankRow(e, tkr, ts, rank) ==
  [event_id |-> e, ticker |-> tkr, relevance_score |-> Rat(1, 2), published_ts |-> ts,
   event_type |-> "other", base_signal |-> Zero, salience |-> Zero, novelty |-> 1,
   rank_relevance |-> Int2Rat(rank)]
ProbeRanking ==
  << ProbeRankRow(<<"a">>, <<"A">>, T0, 1), ProbeRankRow(<<"a">>, <<"B">>, T0, 1),
     ProbeRankRow(<<"b">>, <<"A">>, NaT, 1) >>

\* the minutes at the edges of the two windows around T0: the last minute before
\* the baseline, its first and last minute, the first and last minute of the post
\* window, and the first minute after it
EdgeMinutes ==
  << T0 - DefaultBaselineDays * MinutesPerDay - 1, T0 - DefaultBaselineDays * MinutesPerDay,
     T0 - 1, T0, T0 + DefaultPostMinutes - 1, T0 + DefaultPostMinutes >>

\* bars of ticker A: at every edge minute no bar, or a bar of one of three volumes
BarChoices == [1..Len(EdgeMinutes) -> {NaN, One, Int2Rat(1000), Int2Rat(3000)}]
BarsOfA(ch) ==
  LET all == [k \in 1..Len(EdgeMinutes) |->
                [ticker |-> <<"A">>, ts |-> EdgeMinutes[k], volume |-> ch[k]]]
  IN SelectRows(all, LAMBDA b : ~IsNaN(b.volume))

\* bars of ticker B: none, a flat pair, or a pair that doubles
BarsOfB ==
  {<<>>,
   << [ticker |-> <<"B">>, ts |-> T0 - 1, volume |-> One],
      [ticker |-> <<"B">>, ts |-> T0, volume |-> One] >>,
   << [ticker |-> <<"B">>, ts |-> T0 - 1, volume |-> One],
      [ticker |-> <<"B">>, ts |-> T0, volume |-> Int2Rat(2)] >>}

\* market frames; a frame without baseline volume keeps its post volumes at 1, so
\* that the division by 1e-9 stays within the integers of the checker
MarketFrames ==
  {BarsOfA(ch) \o b :
     ch \in {c \in BarChoices :
               (IsNaN(c[2]) /\ IsNaN(c[3])) =>
                 (c[4] \in {NaN, One} /\ c[5] \in {NaN, One})},
     b \in BarsOfB}

InitVolume ==
  /\ Idle
  /\ \E mkt \in MarketFrames, n \in 1..MaxVolumeTopN :
       probe = [kind |-> "bars", in |-> [rel |-> ProbeRanking, mkt |-> mkt, N_V |-> n],
                out |-> <<>>]

\* lines 99-113 of volume_topn.run() on one ranking and one market frame
RankOneVolume ==
  /\ probe.kind = "bars"
  /\ probe' = [kind |-> "bars_done", in |-> probe.in,
               out |-> TopVolume(probe.in.rel, probe.in.mkt, DefaultBaselineDays,
                                 DefaultPostMinutes, probe.in.N_V)]
  /\ UNCHANGED pipeline

NextVolume == RankOneVolume

SpecVolume == InitVolume /\ [][NextVolume]_vars

\* both rankers side by side
InitTopN == InitRanker \/ InitVolume

NextTopN == RankOneFrame \/ RankOneVolume

SpecTopN == InitTopN /\ [][NextTopN]_vars

\* ------------------------------------------------------------------------
\* Properties of the two rankers
\* ------------------------------------------------------------------------
\* C11: a written relevance ranking has no entry with rank_relevance > N_R and
\* holds every link whose dense rank within its event is <= N_R; a written
\* volume ranking has no entry with rank_volume > N_V and holds every ranked
\* row whose rank_volume is <= N_V.
C11_TopNCut ==
  /\ probe.kind = "frame_done" =>
       LET mp == probe.in.mp
           n == probe.in.N_R
           rank(i) == 1 + Cardinality({mp[j].relevance_score : j \in
                        {j \in 1..Len(mp) :
                           /\ mp[j].event_id = mp[i].event_id
                           /\ mp[j].relevance_score[1] * mp[i].relevance_score[2]
                                > mp[i].relevance_score[1] * mp[j].relevance_score[2]}})
           top == {i \in 1..Len(mp) : rank(i) <= n}
       IN /\ \A k \in 1..Len(probe.out) :
               probe.out[k].rank_relevance[1] <= n * probe.out[k].rank_relevance[2]
          /\ \A i \in top : \E k \in 1..Len(probe.out) :
               /\ PairKey(probe.out[k]) = PairKey(mp[i])
               /\ probe.out[k].rank_relevance = Int2Rat(rank(i))
          /\ Len(probe.out) = Cardinality(top)
  /\ probe.kind = "bars_done" =>
       LET all == VolumeFrame(probe.in.rel, probe.in.mkt, DefaultBaselineDays,
                              DefaultPostMinutes)
           n == probe.in.N_V
           top == {i \in 1..Len(all) : all[i].rank_volume[1] <= n * all[i].rank_volume[2]}
       IN /\ \A k \in 1..Len(probe.out) :
               probe.out[k].rank_volume[1] <= n * probe.out[k].rank_volume[2]
          /\ \A i \in top : \E k \in 1..Len(probe.out) : probe.out[k] = all[i]
          /\ Len(probe.out) = Cardinality(top)

\* with N_V = 1 the second-ranked ticker of the event is cut and the two
\* first-ranked rows are kept
C11_Witness ==
  /\ probe.kind = "bars_done"
  /\ probe.in.N_V = 1
  /\ Len(probe.out) = 2
  /\ \E i \in 1..3 :
       VolumeFrame(probe.in.rel, probe.in.mkt, DefaultBaselineDays,
                   DefaultPostMinutes)[i].rank_volume = Int2Rat(2)

\* ------------------------------------------------------------------------
\* The event normalizer on single batches: dedup, event_id, features and sort
\* of event_normalizer.run() applied once to every batch of a grid
\* ------------------------------------------------------------------------
\* raw records with or without explicit id, with titles and links that hold the
\* separator of "title|link", published a minute apart
ProbeRecords ==
  {[id |-> id, title |-> t, link |-> l, published |-> At(p), summary |-> <<>>,
    source |-> <<>>, feed_name |-> <<"a">>] :
     id \in {<<>>, <<"c">>, <<"a", "|", "b", "|", "c">>},
     t \in {<<"a">>, <<"a", "|", "b">>},
     l \in {<<"c">>, <<"b", "|", "c">>},
     p \in {T0 - 1, T0}}

RECURSIVE BatchesUpTo(_)
BatchesUpTo(n) ==
  IF n = 0 THEN {<<>>}
  ELSE LET shorter == BatchesUpTo(n - 1)
       IN shorter \cup {Append(q, r) : q \in {q \in shorter : Len(q) = n - 1},
                                      r \in ProbeRecords}

InitNormalizer ==
  /\ Idle
  /\ \E raw \in BatchesUpTo(MaxBatch) \ {<<>>} :
       probe = [kind |-> "batch", in |-> raw, out |-> <<>>]

\* lines 127-159 of event_normalizer.run() on one raw batch
NormalizeOneBatch ==
  /\ probe.kind = "batch"
  /\ probe' = [kind |-> "batch_done", in |-> probe.in,
               out |-> NormalizeRows(probe.in, <<>>)]
  /\ UNCHANGED pipeline

NextNormalizer == NormalizeOneBatch

SpecNormalizer == InitNormalizer /\ [][NextNormalizer]_vars

\* C12 as stated: any two records of a batch with the same link collapse to
\* exactly one Event, which carries the fields of the first of them.
C12_SameLinkOneEvent ==
  probe.kind = "batch_done" =>
    \A i \in 1..Len(probe.in) : \A j \in 1..Len(probe.in) :
      (i < j /\ probe.in[i].link = probe.in[j].link) =>
        Cardinality({k \in 1..Len(probe.out) : probe.out[k].link = probe.in[i].link}) = 1

\* C12: the records of a batch with the same dedup key - the explicit id when
\* there is one, else the link - collapse to exactly one Event, which carries
\* the field values of the first of them: the batch yields one Event per key,
\* made of the first record with that key (two records without id that share a
\* link have the same key).
C12_SameKeyOneEvent ==
  probe.kind = "batch_done" =>
    LET raw == probe.in
        key(r) == IF r.id # <<>> THEN r.id ELSE r.link
        firsts == {i \in 1..Len(raw) : \A j \in 1..(i - 1) : key(raw[j]) # key(raw[i])}
    IN /\ Len(probe.out) = Cardinality(firsts)
       /\ \A i \in firsts : \E k \in 1..Len(probe.out) :
            /\ probe.out[k].title = raw[i].title
            /\ probe.out[k].link = raw[i].link
            /\ probe.out[k].published_ts = raw[i].published.clock
            /\ probe.out[k].event_id =
                 (IF raw[i].id # <<>> THEN raw[i].id
                  ELSE raw[i].title \o <<"|">> \o raw[i].link)

\* two records without id share a link and differ in title and time: one Event,
\* with the title and time of the first
C12_Witness ==
  /\ probe.kind = "batch_done"
  /\ Len(probe.in) = 2
  /\ probe.in[1].id = <<>> /\ probe.in[2].id = <<>>
  /\ probe.in[1].link = probe.in[2].link
  /\ probe.in[1].title # probe.in[2].title
  /\ probe.in[1].published.clock > probe.in[2].published.clock
  /\ Len(probe.out) = 1
  /\ probe.out[1].title = probe.in[1].title
  /\ probe.out[1].published_ts = probe.in[1].published.clock

\* C13: for any raw batch, no two Events that survive dedup have the same
\* event_id.
C13_EventIdUnique ==
  probe.kind = "batch_done" =>
    \A i \in 1..Len(probe.out) : \A j \in 1..Len(probe.out) :
      i # j => probe.out[i].event_id # probe.out[j].event_id

\* C14: every persisted link has 0 < relevance_score <= 1, and mapping.parquet
\* holds at most one link per (event_id, ticker).
C14_LinkScorePositiveAndPairUnique ==
  mapping.exists =>
    /\ \A i \in 1..Len(mapping.rows) :
         /\ RLt(Zero, mapping.rows[i].relevance_score)
         /\ RLe(mapping.rows[i].relevance_score, One)
    /\ \A i \in 1..Len(mapping.rows) : \A j \in 1..Len(mapping.rows) :
         (/\ mapping.rows[i].event_id = mapping.rows[j].event_id
          /\ mapping.rows[i].ticker = mapping.rows[j].ticker) => i = j

\* C15: for a ranked pair with event time t0, baseline_mean is the mean volume
\* of exactly the ticker's bars with t0 - baseline_days <= ts < t0 and post_mean
\* that of its bars with t0 <= ts < t0 + post_minutes (0 for an empty window);
\* volume_uplift is (post_mean - baseline_mean) / baseline_mean when
\* baseline_mean > 0, else that numerator divided by 1e-9; baseline_mean 1000 and
\* post_mean 3000 give uplift 2 and a vol_score of 1.
C15_VolumeWindowsAndUplift ==
  probe.kind = "bars_done" =>
    \A k \in 1..Len(probe.out) :
      LET row == probe.out[k]
          t0 == row.published_ts
          mkt == probe.in.mkt
          inBase == {i \in 1..Len(mkt) :
                       /\ mkt[i].ticker = row.ticker
                       /\ t0 - DefaultBaselineDays * MinutesPerDay <= mkt[i].ts
                       /\ mkt[i].ts < t0}
          inPost == {i \in 1..Len(mkt) :
                       /\ mkt[i].ticker = row.ticker
                       /\ t0 <= mkt[i].ts
                       /\ mkt[i].ts < t0 + DefaultPostMinutes}
          vols(S) == LET idx == SetToSortedSeq(S, LAMBDA a, b : a < b)
                     IN [n \in 1..Len(idx) |-> mkt[idx[n]].volume]
          bm == Mean(vols(inBase))
          pm == Mean(vols(inPost))
      IN t0 # NaT =>
           /\ row.baseline_mean = bm
           /\ row.post_mean = pm
           /\ row.volume_uplift =
                (IF RLt(Zero, bm) THEN RDiv(RSub(pm, bm), bm)
                 ELSE RMul(RSub(pm, bm), Int2Rat(EpsilonInverse)))
           /\ (bm = Int2Rat(1000) /\ pm = Int2Rat(3000)) =>
                (row.volume_uplift = Int2Rat(2) /\ NormUplift(row.volume_uplift) = One)

\* ticker A has bars on both edges of both windows and outside them; the mean
\* before t0 is 1000, the mean from t0 on is 3000, and the uplift is 2
C15_Witness ==
  /\ probe.kind = "bars_done"
  /\ Cardinality({i \in 1..Len(probe.in.mkt) : probe.in.mkt[i].ticker = <<"A">>})
       = Len(EdgeMinutes)
  /\ \E k \in 1..Len(probe.out) :
       /\ probe.out[k].ticker = <<"A">>
       /\ probe.out[k].published_ts = T0
       /\ probe.out[k].baseline_mean = Int2Rat(1000)
       /\ probe.out[k].post_mean = Int2Rat(3000)
       /\ probe.out[k].volume_uplift = Int2Rat(2)

\* ------------------------------------------------------------------------
\* The market aggregator on single directories: marketdata_ingestor.run()
\* applied once to every batch of files of a grid
\* ------------------------------------------------------------------------
\* raw trades: two in the same minute of ticker A (one with a blank before the
\* ticker and seconds), one in that minute written in +09:00 and without volume,
\* one of ticker B without price, one with an unreadable time
TradeA1 == [ticker |-> <<"A">>, ts |-> At(T0), volume |-> One, price |-> One]
TradeA2 == [ticker |-> <<" ", "A">>, ts |-> [At(T0) EXCEPT !.sec = 30],
            volume |-> Int2Rat(2), price |-> Int2Rat(2)]
TradeA3 == [ticker |-> <<"A">>, ts |-> AtKst(T0), volume |-> NaN, price |-> One]
TradeB == [ticker |-> <<"B">>, ts |-> At(T0 + 1), volume |-> Rat(1, 2), price |-> NaN]
TradeBad == [ticker |-> <<"A">>, ts |-> Garbage, volume |-> One, price |-> One]
TradeLists == {<<TradeA1, TradeA2>>, <<TradeBad, TradeA3>>, <<TradeB>>}

\* column layouts of a csv file: the names of the ticker, timestamp (or date and
\* time), volume and price columns, NoColumn for a column the file lacks
Layout(tk, ts, d, t, vol, px) ==
  [tk |-> tk, ts |-> ts, d |-> d, t |-> t, vol |-> vol, px |-> px]
LayoutStd == Layout("ticker", "ts", NoColumn, NoColumn, "volume", NoColumn)
LayoutPrice == Layout("symbol", "timestamp", NoColumn, NoColumn, "georaeryang", "close")
LayoutSplit == Layout("kodeu", NoColumn, "naljja", "sigan", "chegyeollyang", "price")
LayoutNoVolume == Layout("ticker", "ts", NoColumn, NoColumn, NoColumn, "price")
LayoutNoTs == Layout("ticker", NoColumn, "date", NoColumn, "volume", NoColumn)
LayoutNoTicker == Layout(NoColumn, "datetime", NoColumn, NoColumn, "volume", NoColumn)
Layouts == {LayoutStd, LayoutPrice, LayoutSplit, LayoutNoVolume, LayoutNoTs, LayoutNoTicker}

\* the csv file that holds the trades under a layout
CsvFile(lay, trades) ==
  LET header == {lay.tk, lay.ts, lay.d, lay.t, lay.vol, lay.px} \ {NoColumn}
      cell(r, c) ==
        IF c = lay.tk THEN r.ticker
        ELSE IF c = lay.ts THEN r.ts
        ELSE IF c = lay.d
             THEN [kind |-> r.ts.kind, clock |-> r.ts.clock - (r.ts.clock % MinutesPerDay),
                   sec |-> 0, kst |-> FALSE]
        ELSE IF c = lay.t
             THEN [r.ts EXCEPT !.clock = r.ts.clock % MinutesPerDay]
        ELSE IF c = lay.vol THEN r.volume
        ELSE r.price
  IN [header |-> header,
      rows |-> [i \in 1..Len(trades) |-> [c \in header |-> cell(trades[i], c)]]]

ProbeFiles == {[lay |-> lay, trades |-> tr] : lay \in Layouts, tr \in TradeLists}

RECURSIVE FileBatchesUpTo(_)
FileBatchesUpTo(n) ==
  IF n = 0 THEN {<<>>}
  ELSE LET shorter == FileBatchesUpTo(n - 1)
       IN shorter \cup {Append(q, f) : q \in {q \in shorter : Len(q) = n - 1},
                                      f \in ProbeFiles}

InitMarket ==
  /\ Idle
  /\ \E batch \in FileBatchesUpTo(MaxFiles) \ {<<>>} :
       probe = [kind |-> "files", in |-> batch, out |-> [wrote |-> FALSE, rows |-> <<>>]]

\* lines 134-152 of marketdata_ingestor.run() on one batch of files
AggregateOneBatch ==
  /\ probe.kind = "files"
  /\ LET files == [i \in 1..Len(probe.in) |-> CsvFile(probe.in[i].lay, probe.in[i].trades)]
         parts == LoadedParts(files)
     IN probe' = [kind |-> "files_done", in |-> probe.in,
                  out |-> IF parts = <<>> THEN [wrote |-> FALSE, rows |-> <<>>]
                          ELSE [wrote |-> TRUE, rows |-> Aggregate(Flatten(parts))]]
  /\ UNCHANGED pipeline

NextMarket == AggregateOneBatch

SpecMarket == InitMarket /\ [][NextMarket]_vars

\* a layout with all required columns: ticker, volume and a timestamp or a date
\* and a time (lines 66-71)
CompleteLayout(lay) ==
  /\ lay.tk # NoColumn /\ lay.vol # NoColumn
  /\ (lay.ts # NoColumn \/ (lay.d # NoColumn /\ lay.t # NoColumn))

\* the trades of a file that have a readable time, each with its ticker and UTC
\* minute
ReadableOf(f) ==
  LET tr == SelectRows(f.trades, LAMBDA r : r.ts.kind = "time")
  IN [k \in 1..Len(tr) |->
        [ticker |-> Strip(tr[k].ticker), ts |-> ParseMarketTs(tr[k].ts),
         volume |-> FillNa(tr[k].volume, Zero)]]

\* the readable trades of the files of the batch that have all required columns
ReadableTrades ==
  Flatten([i \in 1..Len(probe.in) |->
             IF CompleteLayout(probe.in[i].lay) THEN ReadableOf(probe.in[i]) ELSE <<>>])

\* C16: in the written market frame (ticker, ts) is unique, every readable
\* trade of a successfully read file falls into a bar, and the volume of a bar
\* is the sum of the volumes of the readable trades of its ticker and UTC minute.
C16_BarsUniqueAndVolumeConserved ==
  (probe.kind = "files_done" /\ probe.out.wrote) =>
    LET bars == probe.out.rows
    IN /\ \A i \in 1..Len(bars) : \A j \in 1..Len(bars) :
            (bars[i].ticker = bars[j].ticker /\ bars[i].ts = bars[j].ts) => i = j
       /\ \A k \in 1..Len(ReadableTrades) : \E i \in 1..Len(bars) :
            bars[i].ticker = ReadableTrades[k].ticker /\ bars[i].ts = ReadableTrades[k].ts
       /\ \A i \in 1..Len(bars) :
            LET mine == SelectRows(ReadableTrades,
                                   LAMBDA r : r.ticker = bars[i].ticker /\ r.ts = bars[i].ts)
            IN /\ mine # <<>>
               /\ bars[i].volume = RSumSeq([k \in 1..Len(mine) |-> mine[k].volume])

\* three trades of two files land in the minute T0 of ticker A, one of them
\* written in +09:00, and the bar has their total volume
C16_Witness ==
  /\ probe.kind = "files_done" /\ probe.out.wrote
  /\ Len(probe.in) = 2
  /\ probe.in[1].trades = <<TradeA1, TradeA2>> /\ probe.in[1].lay = LayoutSplit
  /\ probe.in[2].trades = <<TradeBad, TradeA3>> /\ probe.in[2].lay = LayoutPrice
  /\ probe.out.rows = << [ticker |-> <<"A">>, ts |-> T0, volume |-> Int2Rat(3)] >>

\* C17: when a successfully read file of the batch has a price column, every
\* bar of the written market frame carries a price field.
C17_PricePassthrough ==
  (/\ probe.kind = "files_done" /\ probe.out.wrote
   /\ \E i \in 1..Len(probe.in) :
        LET rc == ResolveColumns(CsvFile(probe.in[i].lay, probe.in[i].trades).header)
        IN rc.missing = {} /\ rc.price_col # NoColumn) =>
    \A k \in 1..Len(probe.out.rows) : "price" \in DOMAIN probe.out.rows[k]

\* C18: when a file of the batch lacks a required column and another file has
\* them all, the market frame is written, every readable trade of every
\* complete file - before or after the failing one - is in a bar, and no bar
\* comes from a failing file.
C18_PartialFailureIsolation ==
  (/\ probe.kind = "files_done"
   /\ \E i \in 1..Len(probe.in) : ~CompleteLayout(probe.in[i].lay)
   /\ \E i \in 1..Len(probe.in) : CompleteLayout(probe.in[i].lay)) =>
    /\ probe.out.wrote
    /\ \A i \in 1..Len(probe.in) :
         CompleteLayout(probe.in[i].lay) =>
           \A k \in 1..Len(ReadableOf(probe.in[i])) :
             \E b \in 1..Len(probe.out.rows) :
               /\ probe.out.rows[b].ticker = ReadableOf(probe.in[i])[k].ticker
               /\ probe.out.rows[b].ts = ReadableOf(probe.in[i])[k].ts
    /\ \A b \in 1..Len(probe.out.rows) :
         \E i \in 1..Len(probe.in) :
           /\ CompleteLayout(probe.in[i].lay)
           /\ \E k \in 1..Len(ReadableOf(probe.in[i])) :
                /\ probe.out.rows[b].ticker = ReadableOf(probe.in[i])[k].ticker
                /\ probe.out.rows[b].ts = ReadableOf(probe.in[i])[k].ts

\* a file without volume column between two complete files: the bars of the
\* file before it and of the file after it are written, its own trades are not
C18_Witness ==
  /\ probe.kind = "files_done"
  /\ Len(probe.in) = 3
  /\ probe.in[1] = [lay |-> LayoutStd, trades |-> <<TradeB>>]
  /\ probe.in[2] = [lay |-> LayoutNoVolume, trades |-> <<TradeA1, TradeA2>>]
  /\ probe.in[3] = [lay |-> LayoutSplit, trades |-> <<TradeBad, TradeA3>>]
  /\ probe.out.wrote
  /\ probe.out.rows = << [ticker |-> <<"A">>, ts |-> T0, volume |-> Zero],
                         [ticker |-> <<"B">>, ts |-> T0 + 1, volume |-> Rat(1, 2)] >>

\* ------------------------------------------------------------------------
\* The scoring engine run twice on one events.parquet: basic_scoring.run(), then
\* basic_scoring.run() again on the file the first run wrote
\* ------------------------------------------------------------------------
\* the waits between the two runs, in minutes; 0 stands for two runs that read the
\* same clock
Waits == {0, 1, DefaultTimeDecayMinutes}

\* scoring weights: the defaults, the tuned ones, and tuned ones whose
\* min_confidence floor is above every trust
RescoringWeights ==
  {DefaultScoring, TunedScoring, [TunedScoring EXCEPT !.confidence.min_confidence = One]}

InitRescoring ==
  /\ Idle
  /\ \E raw \in RawBatches \ {<<>>}, w \in RescoringWeights,
        clock \in {T0 - 1, T0, T0 + DefaultTimeDecayMinutes}, wait \in Waits :
       probe = [kind |-> "events",
                in |-> [rows |-> NormalizeRows(raw, <<>>), w |-> w, clock |-> clock,
                        wait |-> wait],
                out |-> [first |-> <<>>, second |-> <<>>]]

\* the first run: lines 95-111 on the normalizer's file
ScoreFirst ==
  /\ probe.kind = "events"
  /\ probe' = [probe EXCEPT !.kind = "scored_once",
                            !.out.first = ScoreRows(probe.in.rows, probe.in.w, probe.in.clock)]
  /\ UNCHANGED pipeline

\* the second run: lines 95-111 on the file of the first run, datetime.now()
\* being later by the wait
ScoreAgain ==
  /\ probe.kind = "scored_once"
  /\ probe' = [probe EXCEPT !.kind = "scored_twice",
                            !.out.second = ScoreRows(probe.out.first, probe.in.w,
                                                     probe.in.clock + probe.in.wait)]
  /\ UNCHANGED pipeline

NextRescoring == ScoreFirst \/ ScoreAgain

SpecRescoring == InitRescoring /\ [][NextRescoring]_vars

\* C19 as stated: the second run leaves every event with the polarity,
\* impact_strength, confidence and base_signal of the first run, and the same rows.
C19_RescoreSameScores ==
  probe.kind = "scored_twice" => probe.out.second = probe.out.first

\* C19: the second run keeps the rows and their polarity and impact_strength,
\* and accumulates nothing: its result is that of a single run at its own time,
\* with confidence recomputed from the age of the event at that time and
\* base_signal the product of the three; confidence and base_signal equal those
\* of the first run when both runs read the same clock.
C19_RescoreNoAccumulation ==
  probe.kind = "scored_twice" =>
    LET a == probe.out.first
        b == probe.out.second
    IN /\ Len(b) = Len(a)
       /\ \A i \in 1..Len(b) :
            /\ b[i] = [a[i] EXCEPT !.confidence = b[i].confidence,
                                   !.base_signal = b[i].base_signal]
            /\ b[i].polarity = Polarity(a[i].title, a[i].summary, probe.in.w.polarity)
            /\ b[i].confidence =
                 Confidence(probe.in.rows[i], probe.in.w.confidence,
                            probe.in.clock + probe.in.wait)
            /\ b[i].base_signal =
                 Clip(RMul(RMul(b[i].polarity, b[i].impact_strength), b[i].confidence),
                      RNeg(One), One)
       /\ probe.in.wait = 0 => b = a

\* the second run comes later: an event keeps its non-zero polarity and its
\* impact, and gets a lower confidence and another base_signal
C19_Witness ==
  /\ probe.kind = "scored_twice"
  /\ probe.in.wait > 0
  /\ \E i \in 1..Len(probe.out.second) :
       /\ probe.out.second[i].polarity = probe.out.first[i].polarity
       /\ probe.out.second[i].polarity # Zero
       /\ probe.out.second[i].impact_strength = probe.out.first[i].impact_strength
       /\ RLt(probe.out.second[i].confidence, probe.out.first[i].confidence)
       /\ probe.out.second[i].base_signal # probe.out.first[i].base_signal

\* C20: among the Events of a batch (the records that survive dedup, in input
\* order) an Event has novelty 1 exactly when no earlier Event has the same
\* title and no earlier Event has the same link, and novelty 0 otherwise; the
\* first record of the batch is an Event with novelty 1.
C20_NoveltyByEarlierTitleOrLink ==
  probe.kind = "batch_done" =>
    LET raw == probe.in
        key(r) == IF r.id # <<>> THEN r.id ELSE r.link
        survivors == {i \in 1..Len(raw) : \A j \in 1..(i - 1) : key(raw[j]) # key(raw[i])}
        fresh(i) == \A j \in survivors :
                      j < i => (raw[j].title # raw[i].title /\ raw[j].link # raw[i].link)
        expected(i) == <<raw[i].title, raw[i].link, raw[i].published.clock,
                         IF fresh(i) THEN 1 ELSE 0>>
        written(k) == <<probe.out[k].title, probe.out[k].link, probe.out[k].published_ts,
                        probe.out[k].novelty>>
    IN /\ Len(probe.out) = Cardinality(survivors)
       /\ \A i \in survivors :
            Cardinality({k \in 1..Len(probe.out) : written(k) = expected(i)})
              = Cardinality({j \in survivors : expected(j) = expected(i)})
       /\ \E k \in 1..Len(probe.out) :
            written(k) = <<raw[1].title, raw[1].link, raw[1].published.clock, 1>>

\* two Events with the same link and different titles, the second published
\* before the first: the file lists the second first, with novelty 0, and then
\* the first with novelty 1
C20_Witness ==
  /\ probe.kind = "batch_done"
  /\ Len(probe.in) = 2 /\ Len(probe.out) = 2
  /\ probe.in[1].link = probe.in[2].link
  /\ probe.in[1].title # probe.in[2].title
  /\ probe.in[2].published.clock < probe.in[1].published.clock
  /\ probe.out[1].title = probe.in[2].title /\ probe.out[1].novelty = 0
  /\ probe.out[2].title = probe.in[1].title /\ probe.out[2].novelty = 1

\* ------------------------------------------------------------------------
\* The event-type classifier on single texts: _merge_rules and
\* _classify_event_type applied once to every text and override of a grid
\* ------------------------------------------------------------------------
\* titles: the government announcement of the first scenario, a comment that
\* also names a policy, an upper-case and a lower-case MOU, a product launch, the
\* first half of a two-word keyword, and a text without keyword
ProbeTitles ==
  {<<"jeong", "bu", " ", "gyu", "je", " ", "wan", "hwa", " ", "bal", "pyo">>,
   <<"bal", "eon", " ", "jeong", "chaek">>,
   <<"M", "O", "U">>,
   <<"m", "o", "u">>,
   <<"sin", "je", "pum", " ", "chul", "si">>,
   <<"ji", "won">>,
   <<"a">>}

\* summaries: none, the second half of the two-word keyword, a comment
ProbeSummaries == {<<>>, <<"hwak", "dae">>, <<"bal", "eon">>}

\* rules.event_types of params.yaml: none, more keywords for a built-in category
\* (lower and upper case, a built-in keyword of a later category, none at all),
\* and a category of its own
ProbeOverrides ==
  {<<>>,
   << [etype |-> "industry", kws |-> << <<"a">> >>] >>,
   << [etype |-> "policy", kws |-> << <<"M">> >>] >>,
   << [etype |-> "policy", kws |-> <<>>] >>,
   << [etype |-> "celebrity_comment", kws |-> << <<"sin", "je", "pum">> >>] >>,
   << [etype |-> "collaboration", kws |-> << <<"A">>, <<"b">> >>] >>,
   << [etype |-> "earnings", kws |-> << <<"a">> >>],
      [etype |-> "policy", kws |-> << <<"b">> >>] >>}

InitClassifier ==
  /\ Idle
  /\ \E t \in ProbeTitles, sm \in ProbeSummaries, ov \in ProbeOverrides :
       probe = [kind |-> "text", in |-> [title |-> t, summary |-> sm, cfg_rules |-> ov],
                out |-> ""]

\* lines 141-147 of event_normalizer.run() on one row
ClassifyOneText ==
  /\ probe.kind = "text"
  /\ probe' = [kind |-> "text_done", in |-> probe.in,
               out |-> ClassifyEventType(probe.in.title, probe.in.summary,
                                         MergeRules(probe.in.cfg_rules))]
  /\ UNCHANGED pipeline

NextClassifier == ClassifyOneText

SpecClassifier == InitClassifier /\ [][NextClassifier]_vars

\* C21: the event type is the first of policy, celebrity_comment, collaboration,
\* industry that has a keyword - built-in or configured for it - occurring in the
\* lower-cased "title summary", compared in lower case; when none of the four
\* has one it is a configured category of its own with such a keyword, and
\* "other" when there is none.
C21_FirstMatchingCategory ==
  probe.kind = "text_done" =>
    LET text == Lower(probe.in.title \o <<" ">> \o probe.in.summary)
        ov == probe.in.cfg_rules
        order == <<"policy", "celebrity_comment", "collaboration", "industry">>
        builtin(t) == UNION {Range(DEFAULT_RULES[i].kws) :
                               i \in {i \in 1..Len(DEFAULT_RULES) : DEFAULT_RULES[i].etype = t}}
        configured(t) == UNION {Range(ov[j].kws) :
                                  j \in {j \in 1..Len(ov) : ov[j].etype = t}}
        hit(t) == \E kw \in builtin(t) \cup configured(t) :
                    \E i \in 0..(Len(text) - Len(kw)) :
                      SubSeq(text, i + 1, i + Len(kw)) = Lower(kw)
        firstHits == {n \in 1..Len(order) : hit(order[n]) /\ \A m \in 1..(n - 1) : ~hit(order[m])}
        own == {ov[j].etype : j \in 1..Len(ov)} \ Range(order)
    IN /\ \A n \in firstHits : probe.out = order[n]
       /\ firstHits = {} =>
            /\ probe.out \in own \cup {"other"}
            /\ probe.out \in own => hit(probe.out)
            /\ probe.out = "other" => \A t \in own : ~hit(t)

\* the announcement of the first scenario under a policy override that names
\* another keyword: the built-in keywords still make it "policy"
C21_Witness ==
  /\ probe.kind = "text_done"
  /\ probe.in.title = <<"jeong", "bu", " ", "gyu", "je", " ", "wan", "hwa", " ", "bal", "pyo">>
  /\ probe.in.summary = <<>>
  /\ probe.in.cfg_rules = << [etype |-> "policy", kws |-> << <<"M">> >>] >>
  /\ probe.out = "policy"

\* ------------------------------------------------------------------------
\* The stages over a feed that is replaced: a feed file and a market file are in
\* the raw directories from the start, one more feed file may arrive, and the
\* stages run in any order
\* ------------------------------------------------------------------------
InitRefeed ==
  /\ cfg = Config(ThreeAliases, TunedScoring, DefaultTopN)
  /\ now = T0
  /\ rawFeed = File(<<RawC, RawA>>)
  /\ rawMarket = <<FileBars>>
  /\ events = NoEvents
  /\ mapping = NoFile
  /\ rankings = NoFile
  /\ rankings_volume = NoFile
  /\ market = NoFile
  /\ signals = NoFile
  /\ last = Ran("none", "none")
  /\ budget = [feeds |-> 0, drops |-> MaxDrops, edits |-> MaxEdits, ticks |-> MaxTicks]
  /\ probe = NoProbe

NextRefeed ==
  \/ FeedArrives
  \/ Normalizer \/ Scoring \/ Linker \/ Relevance
  \/ MarketAggregator \/ VolumeRanker \/ Fusion

SpecRefeed == InitRefeed /\ [][NextRefeed]_vars

\* C22: after a fusion run that wrote signals.parquet, every Signal has the
\* event_id of an Event of the events.parquet that run read.
C22_SignalsReferToEvents ==
  (last = Ran("fusion", "wrote") /\ signals.exists) =>
    \A i \in 1..Len(signals.rows) :
      \E j \in 1..Len(events.rows) : events.rows[j].event_id = signals.rows[i].event_id

\* the (event_id, ticker) pairs of a snapshot
PairsOf(rows) == {<<rows[i].event_id, rows[i].ticker>> : i \in 1..Len(rows)}

\* the rankings on disk are the ones relevance_topn and volume_topn write from
\* the files and parameters at hand, and signal_builder has just written
RankedThenFused ==
  /\ last = Ran("fusion", "wrote")
  /\ events.exists /\ mapping.exists /\ market.exists
  /\ rankings = File(TopRelevance(mapping.rows, events, cfg.signal.N_R))
  /\ rankings_volume = File(TopVolume(rankings.rows, market.rows, cfg.baseline_days,
                                      cfg.post_minutes, cfg.N_V))

\* C23: after the rankers and the fusion have run in dependency order without
\* returning early, every pair of rankings_volume.parquet is a pair of
\* rankings.parquet, and the pairs of signals.parquet are those of
\* rankings.parquet.
C23_SignalPairsAreRelevancePairs ==
  RankedThenFused =>
    /\ PairsOf(rankings_volume.rows) \subseteq PairsOf(rankings.rows)
    /\ PairsOf(signals.rows) = PairsOf(rankings.rows)

\* every stage has run once in dependency order under top-N 1: the events are
\* the scored feed, the mapping is the linker's, the volume cut dropped a pair of
\* the relevance ranking, and that pair still has its Signal
C23_Witness ==
  /\ RankedThenFused
  /\ events.scored
  /\ events.rows = ScoreRows(NormalizeRows(rawFeed.rows, cfg.rules), cfg.scoring, now)
  /\ mapping.rows = StableSort(LinkRows(events.rows, cfg.aliases, cfg.relevance), LinkLt)
  /\ market.rows = Aggregate(Flatten(LoadedParts(rawMarket)))
  /\ PairsOf(rankings_volume.rows) # PairsOf(rankings.rows)
  /\ PairsOf(signals.rows) = PairsOf(rankings.rows)

\* C24: with require_positive_base enabled, every row decided "buy" has a
\* base_signal above zero; a base_signal of 0, given or filled in for a missing
\* one, is never decided "buy".
C24_BuyNeedsPositiveBase ==
  /\ (/\ probe.kind = "row_done"
      /\ probe.in.c.require_positive_base
      /\ probe.out.decision = "buy") => RLt(Zero, probe.out.base_signal)
  /\ (/\ probe.kind = "decide_done"
      /\ probe.in.flag
      /\ probe.out = "buy") => RLt(Zero, probe.in.base_sig)

\* C25: after a linker run that wrote mapping.parquet, every link is that of an
\* event whose title or summary holds one of the names or brands configured for
\* the link's ticker.
C25_LinkNeedsMention ==
  (last = Ran("linker", "wrote") /\ mapping.exists) =>
    \A i \in 1..Len(mapping.rows) :
      \E e \in 1..Len(events.rows) : \E a \in 1..Len(cfg.aliases) :
        /\ events.rows[e].event_id = mapping.rows[i].event_id
        /\ cfg.aliases[a].key.text = mapping.rows[i].ticker
        /\ \E key \in Range(cfg.aliases[a].names) \cup Range(cfg.aliases[a].brands) :
             /\ Norm(key) # <<>>
             /\ \/ Contains(Norm(events.rows[e].title), Norm(key))
                \/ Contains(Norm(events.rows[e].summary), Norm(key))

====
